---------------------------- MODULE Spec2Model ----------------------------
(***************************************************************************)
(* The Alpha voice assistant: the conversation loop of main.py, the        *)
(* dispatcher and the action handlers of action_handlers.py, the capture   *)
(* functions of voice_io.py and the classifier wrapper of gemini_nlu.py.   *)
(*                                                                         *)
(* Python strings are sequences of one-character strings, so that lower(), *)
(* strip() and the substring test `in` are computed, not assumed.  A JSON  *)
(* value that is not a string is one of three one-element sequences:       *)
(* Absent (the key is not there), Null (None) and NonStr (a truthy value   *)
(* that is no string, such as a number or a list).                         *)
(***************************************************************************)
EXTENDS Integers, Sequences, FiniteSets, TLC

(***************************************************************************)
(* Bounds of the model.                                                    *)
(***************************************************************************)
\* the per-turn counters of follow-ups, classifications and handler calls
\* stop counting (saturate) at this value
MaxCount == 2

(***************************************************************************)
(* Values and strings.                                                     *)
(***************************************************************************)
Absent == <<"<absent>">>
Null == <<"<null>">>
NonStr == <<"<nonstr>">>

IsStr(v) == v \notin {Absent, Null, NonStr}

\* Python truthiness of a parameter value: None and "" are falsy
Truthy(v) == v \notin {Absent, Null, <<>>}

UpperCase == <<"A","B","C","D","E","F","G","H","I","J","K","L","M",
               "N","O","P","Q","R","S","T","U","V","W","X","Y","Z">>
LowerCase == <<"a","b","c","d","e","f","g","h","i","j","k","l","m",
               "n","o","p","q","r","s","t","u","v","w","x","y","z">>

LowerChar(c) ==
    IF \E i \in 1..26 : UpperCase[i] = c
    THEN LowerCase[CHOOSE i \in 1..26 : UpperCase[i] = c]
    ELSE c

\* str.lower()
Lower(s) == [i \in 1..Len(s) |-> LowerChar(s[i])]

IsSpace(c) == c \in {" ", "\t", "\n"}

RECURSIVE LStrip(_)
LStrip(s) == IF s # <<>> /\ IsSpace(Head(s)) THEN LStrip(Tail(s)) ELSE s

RECURSIVE RStrip(_)
RStrip(s) ==
    IF s # <<>> /\ IsSpace(s[Len(s)]) THEN RStrip(SubSeq(s, 1, Len(s) - 1)) ELSE s

\* str.strip()
Strip(s) == RStrip(LStrip(s))

\* the substring test `sub in s`
Contains(s, sub) ==
    \E i \in 0..(Len(s) - Len(sub)) : SubSeq(s, i + 1, i + Len(sub)) = sub

(***************************************************************************)
(* Words the utterances and the cue patterns are built from.               *)
(***************************************************************************)
SP == <<" ">>
W_open == <<"o","p","e","n">>
W_Open == <<"O","p","e","n">>
W_go_to == <<"g","o"," ","t","o">>
W_play == <<"p","l","a","y">>
W_Play == <<"P","l","a","y">>
W_song == <<"s","o","n","g">>
W_video == <<"v","i","d","e","o">>
W_on_youtube == <<"o","n"," ","y","o","u","t","u","b","e">>
W_explain_about == <<"e","x","p","l","a","i","n"," ","a","b","o","u","t">>
W_tell_me_about == <<"t","e","l","l"," ","m","e"," ","a","b","o","u","t">>
W_chrome == <<"c","h","r","o","m","e">>
W_queen == <<"q","u","e","e","n">>
W_a == <<"a">>

(***************************************************************************)
(* What the speech recogniser can hand back as the text of a command.      *)
(***************************************************************************)
Utterances ==
    { W_open,
      W_Open \o SP \o W_chrome,
      W_go_to,
      W_play,
      W_Play \o SP \o W_a \o SP \o W_song,
      W_play \o SP \o W_queen \o SP \o W_on_youtube,
      W_explain_about,
      W_tell_me_about \o SP \o W_play \o SP \o W_video,
      W_queen }

\* the utterances the conversation loop is run with: a cue without its
\* object, a cue with its object, no cue, two cues at once, a plain answer
LoopUtterances ==
    { W_open,
      W_Open \o SP \o W_chrome,
      W_play,
      W_Play \o SP \o W_a \o SP \o W_song,
      W_tell_me_about \o SP \o W_play \o SP \o W_video,
      W_queen }


(***************************************************************************)
(* Intents: the dictionary parse_command_with_gemini returns.              *)
(* parameters is {shape, obj}: shape says whether the "parameters" key is  *)
(* absent, null, a scalar (a number), an array (the list                   *)
(* ["original_command"]) or an object, obj gives the value of every key    *)
(* of the object (Absent for a key that is not there).                     *)
(***************************************************************************)
Keys == {"answer", "question", "url", "app_name", "query", "song_name", "artist",
         "engine", "command", "operation", "value", "file_name", "content",
         "reason", "original_command"}

NoKeys == [k \in Keys |-> Absent]

Obj(assign) == [shape |-> "object",
                obj |-> [k \in Keys |-> IF k \in DOMAIN assign THEN assign[k] ELSE Absent]]

NoObj(shape) == [shape |-> shape, obj |-> NoKeys]

\* params is a dict: params.get works
IsDict(params) == params.shape = "object"

\* dict.get(key, default)
Get(params, key, default) ==
    IF params.obj[key] = Absent THEN default ELSE params.obj[key]

\* nlu_result.get('parameters', {})
ParametersOf(nlu_result) ==
    IF nlu_result.parameters.shape = "absent" THEN Obj(<<>>) ELSE nlu_result.parameters

\* nlu_result.get('action'): None when the key is absent
ActionOf(nlu_result) ==
    IF nlu_result.action = Absent THEN Null ELSE nlu_result.action

(***************************************************************************)
(* Results of a handler call: what it returned or that it raised, what it  *)
(* spoke and which side effects it attempted, in order.                    *)
(***************************************************************************)
Say(msg, args) == [msg |-> msg, args |-> args]

Effect(op, arg) == [op |-> op, arg |-> arg]

Return(ret, spoken, effects) ==
    [raised |-> FALSE, ret |-> ret, spoken |-> spoken, effects |-> effects]

Raise(exc, spoken, effects) ==
    [raised |-> TRUE, ret |-> exc, spoken |-> spoken, effects |-> effects]

\* Python truthiness of a handler's return value (None, False, True)
TruthyRet(ret) == ret = "True"

\* str(v) inside an f-string: NonStr stands for the number 5
Format(v) ==
    IF v = NonStr THEN <<"5">>
    ELSE IF v \in {Null, Absent} THEN <<"N","o","n","e">>
    ELSE v

(***************************************************************************)
(* String helpers of the handlers.                                         *)
(***************************************************************************)
UpperChar(c) ==
    IF \E i \in 1..26 : LowerCase[i] = c
    THEN UpperCase[CHOOSE i \in 1..26 : LowerCase[i] = c]
    ELSE c

\* str.capitalize()
Capitalize(s) ==
    [i \in 1..Len(s) |-> IF i = 1 THEN UpperChar(s[i]) ELSE LowerChar(s[i])]

\* str.startswith(prefix)
StartsWith(s, prefix) ==
    Len(s) >= Len(prefix) /\ SubSeq(s, 1, Len(prefix)) = prefix

RECURSIVE LStripChars(_, _)
\* str.lstrip(chars): drops leading characters that are in the set chars
LStripChars(s, chars) ==
    IF s # <<>> /\ Head(s) \in chars THEN LStripChars(Tail(s), chars) ELSE s

RECURSIVE RemoveSpaces(_)
\* str.replace(' ', '')
RemoveSpaces(s) ==
    IF s = <<>> THEN <<>>
    ELSE IF Head(s) = " " THEN RemoveSpaces(Tail(s))
    ELSE <<Head(s)>> \o RemoveSpaces(Tail(s))

SafeChars == {LowerCase[i] : i \in 1..26} \cup {UpperCase[i] : i \in 1..26}
             \cup {"0","1","2","3","4","5","6","7","8","9","_",".","-","~"}

QuoteChar(c) ==
    IF c = " " THEN <<"+">>
    ELSE IF c \in SafeChars THEN <<c>>
    ELSE IF c = "/" THEN <<"%","2","F">>
    ELSE IF c = ":" THEN <<"%","3","A">>
    ELSE IF c = "&" THEN <<"%","2","6">>
    ELSE IF c = "+" THEN <<"%","2","B">>
    ELSE IF c = "?" THEN <<"%","3","F">>
    ELSE <<"%", c>>

RECURSIVE QuotePlus(_)
\* urllib.parse.quote_plus on a string
QuotePlus(s) == IF s = <<>> THEN <<>> ELSE QuoteChar(Head(s)) \o QuotePlus(Tail(s))

HTTP == <<"h","t","t","p",":","/","/">>
HTTPS == <<"h","t","t","p","s",":","/","/">>
GOOGLE == <<"g","o","o","g","l","e">>
DUCKDUCKGO == <<"d","u","c","k","d","u","c","k","g","o">>
BING == <<"b","i","n","g">>
DEFAULT_WEB_ENGINE == GOOGLE

(***************************************************************************)
(* The platform and the outcomes of the calls the handlers make to the     *)
(* operating system, the microphone and the file system.                   *)
(***************************************************************************)
Platforms == {"win32", "darwin", "linux"}

\* a subprocess / pyautogui call: it works, it fails the way the code expects
\* (FileNotFoundError, CalledProcessError), or it raises something else
ExecOutcomes == {"ok", "fail", "error"}

YOUTUBE_SEARCH_URL == <<"h","t","t","p","s",":","/","/","w","w","w",".","y","o","u","t","u","b","e",".","c","o","m","/","r","e","s","u","l","t","s","?","s","e","a","r","c","h","_","q","u","e","r","y","=">>
GOOGLE_SEARCH_URL == <<"h","t","t","p","s",":","/","/","w","w","w",".","g","o","o","g","l","e",".","c","o","m","/","s","e","a","r","c","h","?","q","=">>
DUCKDUCKGO_SEARCH_URL == <<"h","t","t","p","s",":","/","/","d","u","c","k","d","u","c","k","g","o",".","c","o","m","/","?","q","=">>
BING_SEARCH_URL == <<"h","t","t","p","s",":","/","/","w","w","w",".","b","i","n","g",".","c","o","m","/","s","e","a","r","c","h","?","q","=">>
DOT_EXE == <<".","e","x","e">>

(***************************************************************************)
(* action_handlers.py: the helpers that call the platform.                 *)
(* x is the outcome of the subprocess call the helper makes.               *)
(***************************************************************************)
\* the alias table of _open_app_cross_platform
AppAlias(name, platform) ==
    IF name = <<"v","s","c","o","d","e">> THEN <<"c","o","d","e">>
    ELSE IF name = <<"c","a","l","c","u","l","a","t","o","r">> THEN <<"c","a","l","c">>
    ELSE IF name = <<"c","h","r","o","m","e">> THEN (IF platform = "linux" THEN <<"g","o","o","g","l","e","-","c","h","r","o","m","e">> ELSE <<"c","h","r","o","m","e">>)
    ELSE IF name = <<"c","m","d">> THEN (IF platform = "win32" THEN <<"c","m","d">> ELSE <<"t","e","r","m","i","n","a","l">>)
    ELSE IF name = <<"c","a","m","e","r","a">>
         THEN (IF platform = "win32" THEN <<"s","t","a","r","t"," ","m","i","c","r","o","s","o","f","t",".","w","i","n","d","o","w","s",".","c","a","m","e","r","a",":">> ELSE <<"w","e","b","c","a","m">>)
    ELSE name

\* _open_app_cross_platform: app_name.lower() is outside the try
open_app_cross_platform(app_name, platform, x) ==
    IF ~IsStr(app_name) THEN Raise("AttributeError", <<>>, <<>>)
    ELSE LET command == AppAlias(RemoveSpaces(Lower(app_name)), platform)
         IN  Return(IF x = "ok" THEN "True" ELSE "False", <<>>,
                    <<Effect("Popen", command)>>)

\* _close_app_cross_platform
close_app_cross_platform(app_name, platform, x) ==
    IF ~IsStr(app_name) THEN Raise("AttributeError", <<>>, <<>>)
    ELSE LET name == RemoveSpaces(Lower(app_name))
             target == IF platform = "win32" THEN name \o DOT_EXE ELSE name
         IN  Return(IF x = "ok" THEN "True" ELSE "False", <<>>,
                    <<Effect("kill", target)>>)

SystemCommands == {<<"l","o","c","k">>, <<"s","h","u","t","d","o","w","n">>, <<"r","e","s","t","a","r","t">>, <<"s","l","e","e","p">>}

SystemDoneMessage(command) ==
    IF command = <<"l","o","c","k">> THEN "System locked."
    ELSE IF command = <<"s","h","u","t","d","o","w","n">> THEN "System shutting down."
    ELSE IF command = <<"r","e","s","t","a","r","t">> THEN "System restarting."
    ELSE "System entering sleep mode."

\* _system_control_cross_platform: command.lower() is outside the try
system_control_cross_platform(command, platform, x) ==
    IF ~IsStr(command) THEN Raise("AttributeError", <<>>, <<>>)
    ELSE LET c == Lower(command)
         IN  IF c \notin SystemCommands THEN Return("False", <<>>, <<>>)
             ELSE IF c = <<"s","l","e","e","p">> /\ platform = "win32"
             THEN Return("False",
                         <<Say("I need administrative rights or a specific utility to put the system to sleep.", <<>>)>>,
                         <<>>)
             ELSE IF x = "ok"
             THEN Return("True", <<Say(SystemDoneMessage(c), <<>>)>>, <<Effect("power", c)>>)
             ELSE Return("False", <<Say("Could not execute system command: {command}", <<c>>)>>,
                         <<Effect("power", c)>>)

VolumeOperations == {<<"s","e","t">>, <<"i","n","c","r","e","a","s","e">>, <<"d","e","c","r","e","a","s","e">>, <<"m","u","t","e">>, <<"u","n","m","u","t","e">>}

\* _volume_control_windows: an operation it does not know falls off the end
\* and returns None; value / 100.0 raises inside the try when value is None
volume_control_windows(operation, value, x) ==
    IF x # "ok" THEN Return("False", <<>>, <<>>)
    ELSE IF operation \notin VolumeOperations THEN Return("None", <<>>, <<>>)
    ELSE IF operation = <<"s","e","t">> /\ value # NonStr THEN Return("False", <<>>, <<>>)
    ELSE Return("True", <<>>, <<Effect("volume", operation)>>)

\* _volume_control_mac_linux
volume_control_mac_linux(operation, value, platform, x) ==
    IF platform \notin {"darwin", "linux"} THEN Return("False", <<>>, <<>>)
    ELSE IF operation \notin VolumeOperations THEN Return("False", <<>>, <<>>)
    ELSE Return(IF x = "ok" THEN "True" ELSE "False", <<>>, <<Effect("volume", operation)>>)

(***************************************************************************)
(* action_handlers.py: the handlers.  Each takes the parameters, the       *)
(* platform and the outcomes e of the calls it makes; a handler whose      *)
(* params is no dictionary raises at its first params.get.                 *)
(***************************************************************************)
handle_open_website(params) ==
    IF ~IsDict(params) THEN Raise("AttributeError", <<>>, <<>>)
    ELSE LET url == Get(params, "url", Null)
         IN  IF ~Truthy(url)
             THEN Return("None", <<Say("I need a website address to open.", <<>>)>>, <<>>)
             ELSE IF ~IsStr(url) THEN Raise("AttributeError", <<>>, <<>>)
             ELSE LET target == IF StartsWith(url, HTTP) \/ StartsWith(url, HTTPS)
                                THEN url
                                ELSE HTTPS \o LStripChars(url, {"w", "."})
                  IN  Return("None", <<Say("Opening {url}", <<target>>)>>,
                             <<Effect("webbrowser.open", target)>>)

handle_open_application(params, platform, e) ==
    IF ~IsDict(params) THEN Raise("AttributeError", <<>>, <<>>)
    ELSE LET app_name == Get(params, "app_name", Null)
             launching == <<Say("Launching {app_name}.", <<Format(app_name)>>)>>
             opened == open_app_cross_platform(app_name, platform, e.exec)
         IN  IF ~Truthy(app_name)
             THEN Return("None", <<Say("I need an application name to open.", <<>>)>>, <<>>)
             ELSE IF opened.raised THEN Raise(opened.ret, launching, <<>>)
             ELSE IF ~TruthyRet(opened.ret)
             THEN Return("None",
                         launching \o <<Say("Sorry, I couldn't find the application: {app_name}.",
                                            <<app_name>>)>>,
                         opened.effects)
             ELSE Return("None", launching, opened.effects)

handle_close_application(params, platform, e) ==
    IF ~IsDict(params) THEN Raise("AttributeError", <<>>, <<>>)
    ELSE LET app_name == Get(params, "app_name", Null)
             closing == <<Say("Attempting to close {app_name}.", <<Format(app_name)>>)>>
             closed == close_app_cross_platform(app_name, platform, e.exec)
         IN  IF ~Truthy(app_name)
             THEN Return("None", <<Say("I need an application name to close.", <<>>)>>, <<>>)
             ELSE IF closed.raised THEN Raise(closed.ret, closing, <<>>)
             ELSE IF ~TruthyRet(closed.ret)
             THEN Return("None",
                         closing \o <<Say("Sorry, I couldn't close the application or it wasn't running: {app_name}.",
                                          <<app_name>>)>>,
                         closed.effects)
             ELSE Return("None",
                         closing \o <<Say("{app_name} closed successfully.", <<app_name>>)>>,
                         closed.effects)

\* quote_plus raises TypeError on a value that is no string
handle_youtube_search(params) ==
    IF ~IsDict(params) THEN Raise("AttributeError", <<>>, <<>>)
    ELSE LET query == Get(params, "query", Null)
         IN  IF ~Truthy(query)
             THEN Return("None", <<Say("I need a search query for YouTube.", <<>>)>>, <<>>)
             ELSE IF ~IsStr(query) THEN Raise("TypeError", <<>>, <<>>)
             ELSE Return("None", <<Say("Searching YouTube for: {query}", <<query>>)>>,
                         <<Effect("webbrowser.open", YOUTUBE_SEARCH_URL \o QuotePlus(query))>>)

handle_youtube_play(params) ==
    IF ~IsDict(params) THEN Raise("AttributeError", <<>>, <<>>)
    ELSE LET song_name == Get(params, "song_name", Null)
             artist == Get(params, "artist", Null)
             query == IF Truthy(artist)
                      THEN Format(song_name) \o SP \o Format(artist)
                      ELSE song_name
         IN  IF ~Truthy(song_name)
             THEN Return("None", <<Say("I need a song or video name to play.", <<>>)>>, <<>>)
             ELSE IF ~IsStr(query) THEN Raise("TypeError", <<>>, <<>>)
             ELSE Return("None", <<Say("Playing {query} on YouTube.", <<query>>)>>,
                         <<Effect("webbrowser.open", YOUTUBE_SEARCH_URL \o QuotePlus(query))>>)

\* search_urls.get(engine.lower(), search_urls[DEFAULT_WEB_ENGINE])
SearchUrl(engine, query) ==
    IF engine = GOOGLE THEN GOOGLE_SEARCH_URL \o QuotePlus(query)
    ELSE IF engine = DUCKDUCKGO THEN DUCKDUCKGO_SEARCH_URL \o QuotePlus(query)
    ELSE IF engine = BING THEN BING_SEARCH_URL \o QuotePlus(query)
    ELSE GOOGLE_SEARCH_URL \o QuotePlus(query)

\* params.get('engine', DEFAULT_WEB_ENGINE) is None when the key holds null,
\* and engine.lower() then raises
handle_web_search(params) ==
    IF ~IsDict(params) THEN Raise("AttributeError", <<>>, <<>>)
    ELSE LET query == Get(params, "query", Null)
             engine == Get(params, "engine", DEFAULT_WEB_ENGINE)
         IN  IF ~Truthy(query)
             THEN Return("None", <<Say("I need a query for a web search.", <<>>)>>, <<>>)
             ELSE IF ~IsStr(query) THEN Raise("TypeError", <<>>, <<>>)
             ELSE IF ~IsStr(engine) THEN Raise("AttributeError", <<>>, <<>>)
             ELSE Return("None",
                         <<Say("Searching {engine} for: {query}", <<Capitalize(engine), query>>)>>,
                         <<Effect("webbrowser.open", SearchUrl(Lower(engine), query))>>)

\* a variant that takes the platform's own message for the failure report
handle_system_control_silent(params, platform, e) ==
    IF ~IsDict(params) THEN Raise("AttributeError", <<>>, <<>>)
    ELSE LET command == Get(params, "command", Null)
             done == system_control_cross_platform(command, platform, e.exec)
         IN  IF ~Truthy(command)
             THEN Return("None", <<Say("I need a command like shutdown, restart, or lock.", <<>>)>>, <<>>)
             ELSE IF done.raised THEN done
             ELSE Return("None", done.spoken, done.effects)

handle_system_control(params, platform, e) ==
    IF ~IsDict(params) THEN Raise("AttributeError", <<>>, <<>>)
    ELSE LET command == Get(params, "command", Null)
             done == system_control_cross_platform(command, platform, e.exec)
         IN  IF ~Truthy(command)
             THEN Return("None", <<Say("I need a command like shutdown, restart, or lock.", <<>>)>>, <<>>)
             ELSE IF done.raised THEN done
             ELSE IF ~TruthyRet(done.ret)
             THEN Return("None",
                         done.spoken \o <<Say("Sorry, the system control command '{command}' failed.",
                                              <<command>>)>>,
                         done.effects)
             ELSE Return("None", done.spoken, done.effects)

VolumeDoneMessage(operation) ==
    IF operation = <<"s","e","t">> THEN "Volume set to {value} percent."
    ELSE IF operation \in {<<"i","n","c","r","e","a","s","e">>, <<"d","e","c","r","e","a","s","e">>} THEN "Volume {operation}d by {DEFAULT_VOLUME_STEP} percent."
    ELSE IF operation \in {<<"m","u","t","e">>, <<"u","n","m","u","t","e">>} THEN "Volume {operation}d."
    ELSE "Volume control executed."

handle_volume_control(params, platform, e) ==
    IF ~IsDict(params) THEN Raise("AttributeError", <<>>, <<>>)
    ELSE LET operation == Get(params, "operation", Null)
             value == Get(params, "value", Null)
             done == IF platform = "win32"
                     THEN volume_control_windows(operation, value, e.exec)
                     ELSE volume_control_mac_linux(operation, value, platform, e.exec)
         IN  IF TruthyRet(done.ret)
             THEN Return("None", <<Say(VolumeDoneMessage(operation), <<operation, Format(value)>>)>>,
                         done.effects)
             ELSE Return("None",
                         <<Say("I'm sorry, I couldn't control the system volume. Check your pycaw installation on Windows, or permissions on other operating systems.", <<>>)>>,
                         done.effects)

\* every pyautogui call and every speak is inside the try
handle_window_control(params, platform, e) ==
    IF ~IsDict(params) THEN Raise("AttributeError", <<>>, <<>>)
    ELSE LET command == Get(params, "command", Null)
             trouble == Say("I had trouble controlling the window. Check your system's keyboard shortcuts.", <<>>)
             attempt == IF command = <<"m","a","x","i","m","i","z","e">> /\ platform = "darwin"
                        THEN <<Say("Attempting to maximize window.", <<>>)>>
                        ELSE <<>>
         IN  IF command = <<"m","i","n","i","m","i","z","e">>
             THEN Return("None",
                         IF e.exec = "ok" THEN <<Say("Window minimized.", <<>>)>> ELSE <<trouble>>,
                         <<Effect("hotkey", command)>>)
             ELSE IF command = <<"m","a","x","i","m","i","z","e">>
             THEN Return("None",
                         attempt \o (IF e.exec = "ok" THEN <<Say("Window maximized.", <<>>)>>
                                     ELSE <<trouble>>),
                         <<Effect("hotkey", command)>>)
             ELSE Return("None",
                         <<Say("Unknown window control command: {command}", <<Format(command)>>)>>,
                         <<>>)

(***************************************************************************)
(* The file system the handlers work on: a function from the paths that    *)
(* exist to what is there.  locked stands for a file or directory the      *)
(* process has no permission to open, write or remove.                     *)
(***************************************************************************)
File(content) == [kind |-> "file", content |-> content, items |-> <<>>, locked |-> FALSE]
LockedFile(content) == [kind |-> "file", content |-> content, items |-> <<>>, locked |-> TRUE]
Dir(items) == [kind |-> "dir", content |-> <<>>, items |-> items, locked |-> FALSE]
Nothing == [kind |-> "none", content |-> <<>>, items |-> <<>>, locked |-> FALSE]

Stat(fs, path) == IF path \in DOMAIN fs THEN fs[path] ELSE Nothing

\* the file system with path holding entry
Put(fs, path, entry) ==
    [p \in (DOMAIN fs) \cup {path} |-> IF p = path THEN entry ELSE fs[p]]

\* the file system without path
Remove(fs, path) == [p \in (DOMAIN fs) \ {path} |-> fs[p]]

\* the exception open(path, mode) raises, "" when it opens; opening for
\* writing or appending creates the file
OpenError(fs, path, mode) ==
    LET st == Stat(fs, path)
    IN  IF path = <<>> THEN "FileNotFoundError"
        ELSE IF st.kind = "dir" THEN "IsADirectoryError"
        ELSE IF st.locked THEN "PermissionError"
        ELSE IF st.kind = "none" /\ mode = "r" THEN "FileNotFoundError"
        ELSE ""

\* os.remove: removing a directory is IsADirectoryError on Linux and
\* PermissionError on Windows and macOS
RemoveError(fs, path, platform) ==
    LET st == Stat(fs, path)
    IN  IF st.kind = "none" THEN "FileNotFoundError"
        ELSE IF st.kind = "dir"
        THEN (IF platform = "linux" THEN "IsADirectoryError" ELSE "PermissionError")
        ELSE IF st.locked THEN "PermissionError"
        ELSE ""

PathSeps(platform) == IF platform = "win32" THEN {"/", "\\"} ELSE {"/"}

RECURSIVE BaseName(_, _)
BaseName(path, platform) ==
    IF \E i \in 1..Len(path) : path[i] \in PathSeps(platform)
    THEN BaseName(Tail(path), platform)
    ELSE path

\* os.path.splitext(path)[1] is not empty: the last component has a dot
\* after its leading dots
HasExtension(path, platform) ==
    Contains(LStripChars(BaseName(path, platform), {"."}), <<".">>)

DOT_TXT == <<".","t","x","t">>
DOT == <<".">>
RESPONSES_PATH == <<"v","o","i","c","e","_","a","s","s","i","s","t","a","n","t","/","r","e","s","p","o","n","s","e","s",".","t","x","t">>
SPOKEN_BUDGET == 200
SEPARATOR_WIDTH == 60

F_create == <<"c","r","e","a","t","e">>
F_append == <<"a","p","p","e","n","d">>
F_read == <<"r","e","a","d">>
F_delete == <<"d","e","l","e","t","e">>
F_list == <<"l","i","s","t">>
FileOperations == {F_create, F_append, F_read, F_delete}

\* str[:n]
Take(s, n) == SubSeq(s, 1, IF Len(s) < n THEN Len(s) ELSE n)

\* the message of the except clause an exception of handle_file_io lands in
\* a variant in which a refused permission is reported as a missing file
FileErrorMessage_unclassified(exc) ==
    IF exc \in {"FileNotFoundError", "PermissionError"}
    THEN "Error: The file or directory '{file_path}' was not found."
    ELSE IF exc = "IsADirectoryError" THEN "Error: '{file_path}' is a directory. Please use the 'list' operation to view its contents."
    ELSE "A general error occurred during the file operation on {file_path}."

FileErrorMessage(exc) ==
    IF exc = "FileNotFoundError" THEN "Error: The file or directory '{file_path}' was not found."
    ELSE IF exc = "PermissionError" THEN "Error: I do not have permission to access or modify '{file_path}'."
    ELSE IF exc = "IsADirectoryError" THEN "Error: '{file_path}' is a directory. Please use the 'list' operation to view its contents."
    ELSE "A general error occurred during the file operation on {file_path}."

\* a result of handle_file_io or handle_gemini_reply: a handler result and
\* the file system the call leaves behind
WithFs(result, fs) ==
    [raised |-> result.raised, ret |-> result.ret, spoken |-> result.spoken,
     effects |-> result.effects, fs |-> fs]


RECURSIVE VisibleItems(_)
\* [item for item in items if not item.startswith('.') and item not in ['..', '.']]
VisibleItems(items) ==
    IF items = <<>> THEN <<>>
    ELSE IF StartsWith(Head(items), DOT) THEN VisibleItems(Tail(items))
    ELSE <<Head(items)>> \o VisibleItems(Tail(items))

RECURSIVE Join(_)
\* ', '.join(items)
Join(items) ==
    IF items = <<>> THEN <<>>
    ELSE IF Len(items) = 1 THEN Head(items)
    ELSE Head(items) \o <<",", " ">> \o Join(Tail(items))

\* a or b
Or(a, b) == IF Truthy(a) THEN a ELSE b

\* the file_path of handle_file_io after the extension fix (lines 438-441)
\* a variant that adds the extension only while there is no such file yet
EffectivePath_until_created(operation, file_name, fs, platform) ==
    IF operation \in FileOperations /\ file_name # DOT
       /\ ~HasExtension(file_name, platform) /\ Stat(fs, file_name).kind # "dir"
       /\ Stat(fs, file_name \o DOT_TXT).kind = "none"
    THEN file_name \o DOT_TXT
    ELSE file_name

EffectivePath(operation, file_name, fs, platform) ==
    IF operation \in FileOperations /\ file_name # DOT
       /\ ~HasExtension(file_name, platform) /\ Stat(fs, file_name).kind # "dir"
    THEN file_name \o DOT_TXT
    ELSE file_name

FileCreate(file_path, content, e) ==
    LET fs == e.fs
        err == OpenError(fs, file_path, "w")
        truncated == Put(fs, file_path, File(<<>>))
        opened == <<Effect("open:w", file_path)>>
    IN  IF err # "" THEN WithFs(Return("None", <<Say(FileErrorMessage(err), <<file_path>>)>>, opened), fs)
        ELSE IF ~IsStr(content) \/ e.fault
        THEN WithFs(Return("None", <<Say(FileErrorMessage("Exception"), <<file_path>>)>>, opened),
                    truncated)
        ELSE WithFs(Return("None",
                           <<Say("Successfully created or overwritten file {file_path}.", <<file_path>>)>>,
                           opened),
                    Put(fs, file_path, File(content)))

FileAppend(file_path, content, e) ==
    LET fs == e.fs
        err == OpenError(fs, file_path, "a")
        old == Stat(fs, file_path).content
        created == Put(fs, file_path, File(old))
        opened == <<Effect("open:a", file_path)>>
        written == IF Len(old) > 0 /\ Strip(content) # <<>>
                   THEN old \o <<"\n">> \o content
                   ELSE old \o content
    IN  IF err # "" THEN WithFs(Return("None", <<Say(FileErrorMessage(err), <<file_path>>)>>, opened), fs)
        ELSE IF ~IsStr(content) \/ e.fault
        THEN WithFs(Return("None", <<Say(FileErrorMessage("Exception"), <<file_path>>)>>, opened),
                    created)
        ELSE WithFs(Return("None",
                           <<Say("Successfully added {content} to {file_path}.", <<content, file_path>>)>>,
                           opened),
                    Put(fs, file_path, File(written)))

FileRead_marking_at_budget(file_path, e) ==
    LET fs == e.fs
        err == OpenError(fs, file_path, "r")
        file_content == Stat(fs, file_path).content
        opened == <<Effect("open:r", file_path)>>
        display_content == Take(file_content, SPOKEN_BUDGET)
                           \o (IF Len(file_content) >= SPOKEN_BUDGET THEN <<".", ".", ".">> ELSE <<>>)
    IN  IF err # "" THEN WithFs(Return("None", <<Say(FileErrorMessage(err), <<file_path>>)>>, opened), fs)
        ELSE IF e.fault
        THEN WithFs(Return("None", <<Say(FileErrorMessage("Exception"), <<file_path>>)>>, opened), fs)
        ELSE IF file_content # <<>>
        THEN WithFs(Return("None",
                           <<Say("The content of {file_path} is: {display_content}",
                                 <<file_path, display_content>>)>>,
                           opened),
                    fs)
        ELSE WithFs(Return("None", <<Say("File {file_path} is empty.", <<file_path>>)>>, opened), fs)

FileRead(file_path, e) ==
    LET fs == e.fs
        err == OpenError(fs, file_path, "r")
        file_content == Stat(fs, file_path).content
        opened == <<Effect("open:r", file_path)>>
        display_content == Take(file_content, SPOKEN_BUDGET)
                           \o (IF Len(file_content) > SPOKEN_BUDGET THEN <<".", ".", ".">> ELSE <<>>)
    IN  IF err # "" THEN WithFs(Return("None", <<Say(FileErrorMessage(err), <<file_path>>)>>, opened), fs)
        ELSE IF e.fault
        THEN WithFs(Return("None", <<Say(FileErrorMessage("Exception"), <<file_path>>)>>, opened), fs)
        ELSE IF file_content # <<>>
        THEN WithFs(Return("None",
                           <<Say("The content of {file_path} is: {display_content}",
                                 <<file_path, display_content>>)>>,
                           opened),
                    fs)
        ELSE WithFs(Return("None", <<Say("File {file_path} is empty.", <<file_path>>)>>, opened), fs)

FileDelete(file_path, platform, e) ==
    LET fs == e.fs
        err == IF e.fault THEN "Exception" ELSE RemoveError(fs, file_path, platform)
        removing == <<Effect("remove", file_path)>>
    IN  IF err # "" THEN WithFs(Return("None", <<Say(FileErrorMessage(err), <<file_path>>)>>, removing), fs)
        ELSE WithFs(Return("None",
                           <<Say("File {file_path} has been permanently deleted.", <<file_path>>)>>,
                           removing),
                    Remove(fs, file_path))

\* os.listdir: None lists the current directory, a number is a bad file
\* descriptor, a file is NotADirectoryError (both land in the generic clause)
FileList(file_path, e) ==
    LET fs == e.fs
        dir == IF file_path = Null THEN DOT ELSE file_path
        st == Stat(fs, dir)
        err == IF file_path = NonStr \/ e.fault THEN "Exception"
               ELSE IF st.kind = "none" THEN "FileNotFoundError"
               ELSE IF st.kind = "file" THEN "Exception"
               ELSE IF st.locked THEN "PermissionError"
               ELSE ""
        items == VisibleItems(st.items)
        listing == <<Effect("listdir", file_path)>>
    IN  IF err # ""
        THEN WithFs(Return("None", <<Say(FileErrorMessage(err), <<Format(file_path)>>)>>, listing), fs)
        ELSE IF items = <<>>
        THEN WithFs(Return("None",
                           <<Say("The directory {file_path} is empty or doesn't exist.",
                                 <<Format(file_path)>>)>>,
                           listing),
                    fs)
        ELSE WithFs(Return("None",
                           <<Say("The contents of {file_path} are: {items}",
                                 <<Format(file_path), Join(items)>>)>>,
                           listing),
                    fs)

\* os.path.splitext raises TypeError, outside the try, on a file_name that
\* is None or no string
handle_file_io(params, platform, e) ==
    IF ~IsDict(params) THEN WithFs(Raise("AttributeError", <<>>, <<>>), e.fs)
    ELSE LET operation == Get(params, "operation", Null)
             file_name == Get(params, "file_name", DOT)
             content == Or(Get(params, "content", Null), <<>>)
             file_path == EffectivePath(operation, file_name, e.fs, platform)
         IN  IF operation \in FileOperations /\ ~IsStr(file_name)
             THEN WithFs(Raise("TypeError", <<>>, <<>>), e.fs)
             ELSE IF operation \in FileOperations /\ file_path = DOT
             THEN WithFs(Return("None",
                                <<Say("Please specify a file name for the '{operation}' operation.",
                                      <<operation>>)>>,
                                <<>>),
                         e.fs)
             ELSE IF operation = F_create THEN FileCreate(file_path, content, e)
             ELSE IF operation = F_append THEN FileAppend(file_path, content, e)
             ELSE IF operation = F_read THEN FileRead(file_path, e)
             ELSE IF operation = F_delete THEN FileDelete(file_path, platform, e)
             ELSE IF operation = F_list THEN FileList(file_path, e)
             ELSE WithFs(Return("None",
                                <<Say("The file operation '{operation}' is not supported.",
                                      <<Format(operation)>>)>>,
                                <<>>),
                         e.fs)

AffirmativeWords == {<<"y","e","s">>, <<"y","e","a","h">>, <<"y","u","p">>, <<"s","u","r","e">>, <<"s","a","v","e">>, <<"p","l","e","a","s","e"," ","s","a","v","e">>, <<"o","k">>}

\* any(w in reply.lower() for w in [...]) on a reply that was heard
Affirmative(reply) ==
    Truthy(reply) /\ \E w \in AffirmativeWords : Contains(Lower(reply), w)

\* c * n
Repeat(c, n) == [i \in 1..n |-> c]

NL == <<"\n">>

\* '\n'.join(entry_lines) + '\n'
ResponseEntry(timestamp, question, answer) ==
    Repeat("=", SEPARATOR_WIDTH) \o NL
    \o <<"S","a","v","e","d",":"," ">> \o timestamp \o NL
    \o <<"Q","u","e","s","t","i","o","n",":"," ">> \o Format(question) \o NL
    \o Repeat("-", SEPARATOR_WIDTH) \o NL
    \o Strip(answer) \o NL
    \o NL

USER_QUERY == <<"U","s","e","r"," ","q","u","e","r","y">>

\* a variant that listens a second time whatever the first listen heard
handle_gemini_reply_listening_twice(params, original_command, e) ==
    IF ~IsDict(params) THEN WithFs(Raise("AttributeError", <<>>, <<>>), e.fs)
    ELSE LET answer == Get(params, "answer", Null)
             asked == <<Say("{answer}", <<Format(answer)>>),
                        Say("Would you like me to save this response for later? Please say yes or no.", <<>>)>>
             again == IF Truthy(e.reply1) THEN <<>>
                      ELSE <<Say("I didn't catch that. Do you want me to save it? Say yes or no.", <<>>)>>
             listens == <<Effect("listen_for_short_response", <<>>),
                          Effect("listen_for_short_response", <<>>)>>
             reply == IF Truthy(e.reply1) THEN e.reply1 ELSE e.reply2
             question == Or(original_command, Or(Get(params, "question", Null), USER_QUERY))
             err == OpenError(e.fs, RESPONSES_PATH, "a")
             old == Stat(e.fs, RESPONSES_PATH).content
             sorry == Say("Sorry, I couldn't save the response due to an error.", <<>>)
         IN  IF ~Truthy(answer)
             THEN WithFs(Return("False",
                                <<Say("I received an empty response from the knowledge engine.", <<>>)>>,
                                <<>>),
                         e.fs)
             ELSE IF ~Affirmative(reply)
             THEN WithFs(Return("False", asked \o again \o <<Say("Okay, I won't save it.", <<>>)>>, listens),
                         e.fs)
             ELSE IF ~IsStr(answer)
             THEN WithFs(Return("False", asked \o again \o <<sorry>>, listens), e.fs)
             ELSE IF err # "" \/ e.fault
             THEN WithFs(Return("False", asked \o again \o <<sorry>>,
                                listens \o <<Effect("open:a", RESPONSES_PATH)>>),
                         IF err = "" THEN Put(e.fs, RESPONSES_PATH, File(old)) ELSE e.fs)
             ELSE WithFs(Return("False",
                                asked \o again \o <<Say("Saved the response to my memory.", <<>>)>>,
                                listens \o <<Effect("open:a", RESPONSES_PATH)>>),
                         Put(e.fs, RESPONSES_PATH,
                             File(old \o ResponseEntry(e.now, question, answer))))

\* handle_gemini_reply: e.reply1 and e.reply2 are what the two short listens
\* return (Null when nothing was heard or the listen raised)
handle_gemini_reply(params, original_command, e) ==
    IF ~IsDict(params) THEN WithFs(Raise("AttributeError", <<>>, <<>>), e.fs)
    ELSE LET answer == Get(params, "answer", Null)
             asked == <<Say("{answer}", <<Format(answer)>>),
                        Say("Would you like me to save this response for later? Please say yes or no.", <<>>)>>
             again == IF Truthy(e.reply1) THEN <<>>
                      ELSE <<Say("I didn't catch that. Do you want me to save it? Say yes or no.", <<>>)>>
             listens == IF Truthy(e.reply1)
                        THEN <<Effect("listen_for_short_response", <<>>)>>
                        ELSE <<Effect("listen_for_short_response", <<>>),
                               Effect("listen_for_short_response", <<>>)>>
             reply == IF Truthy(e.reply1) THEN e.reply1 ELSE e.reply2
             question == Or(original_command, Or(Get(params, "question", Null), USER_QUERY))
             err == OpenError(e.fs, RESPONSES_PATH, "a")
             old == Stat(e.fs, RESPONSES_PATH).content
             sorry == Say("Sorry, I couldn't save the response due to an error.", <<>>)
         IN  IF ~Truthy(answer)
             THEN WithFs(Return("False",
                                <<Say("I received an empty response from the knowledge engine.", <<>>)>>,
                                <<>>),
                         e.fs)
             ELSE IF ~Affirmative(reply)
             THEN WithFs(Return("False", asked \o again \o <<Say("Okay, I won't save it.", <<>>)>>, listens),
                         e.fs)
             ELSE IF ~IsStr(answer)
             THEN WithFs(Return("False", asked \o again \o <<sorry>>, listens), e.fs)
             ELSE IF err # "" \/ e.fault
             THEN WithFs(Return("False", asked \o again \o <<sorry>>,
                                listens \o <<Effect("open:a", RESPONSES_PATH)>>),
                         IF err = "" THEN Put(e.fs, RESPONSES_PATH, File(old)) ELSE e.fs)
             ELSE WithFs(Return("False",
                                asked \o again \o <<Say("Saved the response to my memory.", <<>>)>>,
                                listens \o <<Effect("open:a", RESPONSES_PATH)>>),
                         Put(e.fs, RESPONSES_PATH,
                             File(old \o ResponseEntry(e.now, question, answer))))

DEFAULT_REASON == <<"C","o","m","m","a","n","d"," ","n","o","t"," ","u","n","d","e","r","s","t","o","o","d",".">>

\* a variant whose play pattern is the word play alone
handle_unknown_action_play_alone(params, original_command) ==
    IF ~IsDict(params) THEN Raise("AttributeError", <<>>, <<>>)
    ELSE LET reason == Get(params, "reason", DEFAULT_REASON)
             clean_command == Strip(Lower(original_command))
         IN  IF Contains(clean_command, W_explain_about) \/ Contains(clean_command, W_tell_me_about)
             THEN Return("True", <<Say("What do you want me to explain about?", <<>>)>>, <<>>)
             ELSE IF Contains(clean_command, W_play)
             THEN Return("True", <<Say("What song or video should I play?", <<>>)>>, <<>>)
             ELSE IF Contains(clean_command, W_open) \/ Contains(clean_command, W_go_to)
             THEN Return("True",
                         <<Say("What application or website do you want me to open?", <<>>)>>, <<>>)
             ELSE Return("False",
                         <<Say("I'm sorry, I didn't understand the command. The NLU reason was: {reason}",
                               <<Format(reason)>>)>>,
                         <<>>)

\* a variant that asks for a follow-up whatever the command says
handle_unknown_action_always(params, original_command) ==
    Return("True", <<Say("What application or website do you want me to open?", <<>>)>>, <<>>)

\* handle_unknown_action: the first cue pattern that matches decides
handle_unknown_action(params, original_command) ==
    IF ~IsDict(params) THEN Raise("AttributeError", <<>>, <<>>)
    ELSE LET reason == Get(params, "reason", DEFAULT_REASON)
             clean_command == Strip(Lower(original_command))
         IN  IF Contains(clean_command, W_explain_about) \/ Contains(clean_command, W_tell_me_about)
             THEN Return("True", <<Say("What do you want me to explain about?", <<>>)>>, <<>>)
             ELSE IF Contains(clean_command, W_play)
                     /\ (Contains(clean_command, W_song) \/ Contains(clean_command, W_video)
                         \/ Contains(clean_command, W_on_youtube))
             THEN Return("True", <<Say("What song or video should I play?", <<>>)>>, <<>>)
             ELSE IF Contains(clean_command, W_open) \/ Contains(clean_command, W_go_to)
             THEN Return("True",
                         <<Say("What application or website do you want me to open?", <<>>)>>, <<>>)
             ELSE Return("False",
                         <<Say("I'm sorry, I didn't understand the command. The NLU reason was: {reason}",
                               <<Format(reason)>>)>>,
                         <<>>)

(***************************************************************************)
(* The dispatcher.                                                         *)
(***************************************************************************)
A_gemini_reply == <<"g","e","m","i","n","i","_","r","e","p","l","y">>
A_open_website == <<"o","p","e","n","_","w","e","b","s","i","t","e">>
A_open_application == <<"o","p","e","n","_","a","p","p","l","i","c","a","t","i","o","n">>
A_close_application == <<"c","l","o","s","e","_","a","p","p","l","i","c","a","t","i","o","n">>
A_youtube_search == <<"y","o","u","t","u","b","e","_","s","e","a","r","c","h">>
A_youtube_play == <<"y","o","u","t","u","b","e","_","p","l","a","y">>
A_web_search == <<"w","e","b","_","s","e","a","r","c","h">>
A_system_control == <<"s","y","s","t","e","m","_","c","o","n","t","r","o","l">>
A_volume_control == <<"v","o","l","u","m","e","_","c","o","n","t","r","o","l">>
A_window_control == <<"w","i","n","d","o","w","_","c","o","n","t","r","o","l">>
A_file_io == <<"f","i","l","e","_","i","o">>
A_unknown == <<"u","n","k","n","o","w","n">>

\* the keys of ACTION_MAP
RegisteredActions ==
    {A_gemini_reply, A_open_website, A_open_application, A_close_application,
     A_youtube_search, A_youtube_play, A_web_search, A_system_control,
     A_volume_control, A_window_control, A_file_io, A_unknown}

\* ACTION_MAP.get(action_type, handle_unknown_action): the handler's name
HandlerFor(action_type) ==
    IF action_type \in RegisteredActions \ {A_unknown} THEN action_type ELSE A_unknown

\* ACTION_MAP[name](p, c): every lambda but the last drops c, so that
\* handle_gemini_reply runs with its default original_command=None
ACTION_MAP(name, p, c, platform, e) ==
    IF name = A_gemini_reply THEN handle_gemini_reply(p, Null, e)
    ELSE IF name = A_open_website THEN WithFs(handle_open_website(p), e.fs)
    ELSE IF name = A_open_application THEN WithFs(handle_open_application(p, platform, e), e.fs)
    ELSE IF name = A_close_application THEN WithFs(handle_close_application(p, platform, e), e.fs)
    ELSE IF name = A_youtube_search THEN WithFs(handle_youtube_search(p), e.fs)
    ELSE IF name = A_youtube_play THEN WithFs(handle_youtube_play(p), e.fs)
    ELSE IF name = A_web_search THEN WithFs(handle_web_search(p), e.fs)
    ELSE IF name = A_system_control THEN WithFs(handle_system_control(p, platform, e), e.fs)
    ELSE IF name = A_volume_control THEN WithFs(handle_volume_control(p, platform, e), e.fs)
    ELSE IF name = A_window_control THEN WithFs(handle_window_control(p, platform, e), e.fs)
    ELSE IF name = A_file_io THEN handle_file_io(p, platform, e)
    ELSE WithFs(handle_unknown_action(p, c), e.fs)

\* an action_type that cannot be a dictionary key (a JSON list or object)
Unhashable == <<"<unhashable>">>

\* execute_action: the handler's result, and the handler that ran
execute_action(nlu_result, original_command, platform, e) ==
    LET action_type == ActionOf(nlu_result)
        params == ParametersOf(nlu_result)
        handler == HandlerFor(action_type)
    IN  IF action_type = Unhashable
        THEN [handler |-> Null, result |-> WithFs(Raise("TypeError", <<>>, <<>>), e.fs)]
        ELSE [handler |-> handler,
              result |-> ACTION_MAP(handler, params, original_command, platform, e)]

(***************************************************************************)
(* gemini_nlu.py: the classifier wrapper.  upstream is what the call to    *)
(* the model did: it raised an APIError, it raised something else, its     *)
(* text was no JSON, its JSON was no object, or its JSON was the object    *)
(* upstream.json.                                                          *)
(***************************************************************************)
R_key_missing == <<"A","P","I"," ","K","e","y"," ","M","i","s","s","i","n","g">>
R_api_error == <<"G","e","m","i","n","i"," ","A","P","I"," ","E","r","r","o","r">>
R_json_failed == <<"J","S","O","N"," ","P","a","r","s","i","n","g"," ","F","a","i","l","e","d"," ","f","r","o","m"," ","N","L","U"," ","E","n","g","i","n","e">>
R_internal == <<"I","n","t","e","r","n","a","l"," ","N","L","U"," ","E","r","r","o","r">>

UnknownIntent(reason, command_text) ==
    [action |-> A_unknown,
     parameters |-> Obj([reason |-> reason, original_command |-> command_text])]

parse_command_with_gemini(command_text, api_key, upstream) ==
    IF ~api_key THEN UnknownIntent(R_key_missing, command_text)
    ELSE IF upstream.kind = "api_error" THEN UnknownIntent(R_api_error, command_text)
    ELSE IF upstream.kind = "not_json" THEN UnknownIntent(R_json_failed, command_text)
    ELSE IF upstream.kind \in {"error", "non_object"} THEN UnknownIntent(R_internal, command_text)
    ELSE LET nlu_result == upstream.json
         IN  IF ActionOf(nlu_result) # A_unknown THEN nlu_result
             ELSE IF nlu_result.parameters.shape \in {"absent", "null", "scalar"}
             THEN UnknownIntent(R_internal, command_text)
             ELSE IF nlu_result.parameters.shape = "array" THEN nlu_result
             ELSE IF nlu_result.parameters.obj["original_command"] # Absent THEN nlu_result
             ELSE [nlu_result EXCEPT !.parameters.obj["original_command"] = command_text]

(***************************************************************************)
(* voice_io.py: the capture functions.  heard is what the microphone and   *)
(* the speech service did.                                                 *)
(***************************************************************************)
WAKE_WORD == <<"a","s","s","i","s","t","a","n","t">>

\* a variant that takes any speech for the wake word
listen_for_wake_word_any_speech(heard) ==
    IF heard.kind = "error" THEN Raise("Exception", <<>>, <<>>)
    ELSE IF heard.kind = "text" THEN Return("True", <<>>, <<>>)
    ELSE Return("False", <<>>, <<>>)

\* listen_for_wake_word: heard.kind is "text" (with heard.text), "timeout",
\* "unclear", "service_error", or "error" (an exception the function does
\* not catch, such as a missing microphone)
listen_for_wake_word(heard) ==
    IF heard.kind = "error" THEN Raise("Exception", <<>>, <<>>)
    ELSE IF heard.kind = "text" /\ Contains(Lower(heard.text), Lower(WAKE_WORD))
    THEN Return("True", <<>>, <<>>)
    ELSE Return("False", <<>>, <<>>)

\* listen_for_command: the text, or None after an apology; "mic_error" is
\* an exception of sr.Microphone() or adjust_for_ambient_noise, which are
\* outside the try
listen_for_command(heard) ==
    IF heard.kind = "mic_error" THEN [raised |-> TRUE, text |-> Null, spoken |-> <<>>]
    ELSE IF heard.kind = "text" THEN [raised |-> FALSE, text |-> heard.text, spoken |-> <<>>]
    ELSE [raised |-> FALSE, text |-> Null,
          spoken |-> <<Say(IF heard.kind = "timeout"
                           THEN "I didn't hear a command. Returning to sleep mode."
                           ELSE IF heard.kind = "unclear"
                           THEN "Sorry, I could not understand the audio. Please speak clearly."
                           ELSE IF heard.kind = "service_error"
                           THEN "Sorry, my speech service is currently unavailable."
                           ELSE "An internal error occurred. Please check the logs.",
                           <<>>)>>]

(***************************************************************************)
(* The inputs the environment can supply.                                  *)
(***************************************************************************)
T_cats == <<"c","a","t","s">>
T_milk == <<"m","i","l","k">>
T_eggs == <<"e","g","g","s">>
T_list == <<"l","i","s","t">>
T_docs == <<"d","o","c","s">>
T_answer == <<" ","4","2"," ">>
T_ambiguous == <<"a","m","b","i","g","u","o","u","s">>

\* the values a JSON parameter can have, given its well-formed values
Vals(valid) == {Absent, Null, <<>>, NonStr} \cup valid

\* one intent per combination of the parameters a kind reads
IntentsOf(action, key1, vals1, key2, vals2) ==
    { [action |-> action,
       parameters |-> [shape |-> "object",
                       obj |-> [k \in Keys |-> IF k = key1 THEN v1
                                               ELSE IF k = key2 THEN v2 ELSE Absent]]] :
      v1 \in vals1, v2 \in vals2 }

FileIntents ==
    { [action |-> A_file_io,
       parameters |-> Obj([operation |-> op, file_name |-> name, content |-> text])] :
      op \in {Absent, F_create, F_append, F_read, F_delete, F_list, <<"r","e","n","a","m","e">>},
      name \in {Absent, Null, <<>>, T_list, T_docs},
      text \in {Absent, T_milk} }

\* kinds that are not keys of ACTION_MAP: an unregistered name, the empty
\* string, null, a missing "action" key, a number, a list
T_www_web_de == <<"w","w","w",".","w","e","b",".","d","e">>

UnregisteredKinds == {<<"f","r","o","b","n","i","c","a","t","e">>, <<>>, Null, Absent, NonStr, Unhashable}

\* well-formed and malformed objects the model's JSON can decode to
UpstreamIntents ==
    IntentsOf(A_gemini_reply, "answer", Vals({T_answer}), "question", {Absent})
    \cup IntentsOf(A_open_website, "url", Vals({T_www_web_de, <<"h","t","t","p","s",":","/","/","a",".","i","o">>}), "question", {Absent})
    \cup IntentsOf(A_open_application, "app_name", Vals({<<"V","S"," ","C","o","d","e">>}), "question", {Absent})
    \cup IntentsOf(A_close_application, "app_name", Vals({W_chrome}), "question", {Absent})
    \cup IntentsOf(A_youtube_search, "query", Vals({T_cats}), "question", {Absent})
    \cup IntentsOf(A_youtube_play, "song_name", Vals({W_song}), "artist", {Absent, W_queen})
    \cup IntentsOf(A_web_search, "query", {Absent, NonStr, T_cats},
                   "engine", {Absent, Null, NonStr, <<"B","i","n","g">>, <<"y","a","h","o","o">>})
    \cup IntentsOf(A_system_control, "command",
                   Vals({<<"s","h","u","t","d","o","w","n">>, <<"L","o","c","k">>, <<"s","l","e","e","p">>, <<"h","i","b","e","r","n","a","t","e">>}), "question", {Absent})
    \cup IntentsOf(A_volume_control, "operation", {Absent, <<"s","e","t">>, <<"m","u","t","e">>, <<"b","o","o","s","t">>},
                   "value", {Absent, NonStr})
    \cup IntentsOf(A_window_control, "command", {Absent, <<"m","i","n","i","m","i","z","e">>, <<"m","a","x","i","m","i","z","e">>, <<"c","l","o","s","e">>},
                   "question", {Absent})
    \cup FileIntents
    \cup UNION { IntentsOf(kind, "reason", {Absent, T_ambiguous}, "question", {Absent}) :
                 kind \in {A_unknown} \cup UnregisteredKinds }
    \cup { [action |-> kind, parameters |-> NoObj(shape)] :
           kind \in RegisteredActions \cup {<<"f","r","o","b","n","i","c","a","t","e">>, Absent},
           shape \in {"absent", "null", "scalar"} }
    \cup { [action |-> A_unknown, parameters |-> NoObj("array")] }

\* the objects the conversation loop is run with: for every kind a
\* well-formed request, one whose required parameter is missing and one whose
\* parameters are null, and the malformed requests that make a handler raise
LoopIntents ==
    IntentsOf(A_gemini_reply, "answer", {Absent, T_answer}, "question", {Absent})
    \cup IntentsOf(A_open_website, "url", {Absent, NonStr, T_www_web_de}, "question", {Absent})
    \cup IntentsOf(A_open_application, "app_name", {Absent, <<"V","S"," ","C","o","d","e">>}, "question", {Absent})
    \cup IntentsOf(A_close_application, "app_name", {Absent, W_chrome}, "question", {Absent})
    \cup IntentsOf(A_youtube_search, "query", {Absent, T_cats}, "question", {Absent})
    \cup IntentsOf(A_youtube_play, "song_name", {Absent, W_song}, "artist", {Absent})
    \cup IntentsOf(A_web_search, "query", {Absent, T_cats}, "engine", {Absent, Null, <<"B","i","n","g">>})
    \cup IntentsOf(A_system_control, "command", {Absent, <<"s","h","u","t","d","o","w","n">>, <<"h","i","b","e","r","n","a","t","e">>},
                   "question", {Absent})
    \cup IntentsOf(A_volume_control, "operation", {Absent, <<"m","u","t","e">>}, "value", {Absent})
    \cup IntentsOf(A_window_control, "command", {Absent, <<"m","i","n","i","m","i","z","e">>}, "question", {Absent})
    \cup IntentsOf(A_file_io, "operation", {F_append, F_read}, "file_name", {Absent, Null, T_list})
    \cup UNION { IntentsOf(kind, "reason", {T_ambiguous}, "question", {Absent}) :
                 kind \in {A_unknown, <<"f","r","o","b","n","i","c","a","t","e">>, <<>>, Null, Absent, Unhashable} }
    \cup { [action |-> kind, parameters |-> NoObj("null")] :
           kind \in {A_unknown, A_open_website, <<"f","r","o","b","n","i","c","a","t","e">>} }
    \cup { [action |-> A_unknown, parameters |-> NoObj(shape)] : shape \in {"absent", "array"} }

\* what the call to the model can do, with its objects drawn from intents
Upstreams(intents) ==
    { [kind |-> k, json |-> [action |-> Absent, parameters |-> NoObj("absent")]] :
      k \in {"no_key", "api_error", "not_json", "non_object", "error"} }
    \cup { [kind |-> "object", json |-> j] : j \in intents }

\* what a capture can hear
Heard ==
    { [kind |-> k, text |-> <<>>] :
      k \in {"timeout", "unclear", "service_error", "unexpected", "mic_error"} }
    \cup { [kind |-> "text", text |-> u] : u \in LoopUtterances \cup {<<>>} }

\* what the wake-word listen can hear
WakeHeard ==
    { [kind |-> k, text |-> <<>>] : k \in {"timeout", "unclear", "service_error", "error"} }
    \cup { [kind |-> "text", text |-> u] :
           u \in {WAKE_WORD, <<"H","e","y"," ","A","s","s","i","s","t","a","n","t">>, W_queen} }

Replies == {Null, <<"y","e","s">>, <<"n","o">>, <<"n","o","t"," ","o","k","a","y">>}


EmptyFs == [p \in {} |-> Nothing]

Fs0 == Put(Put(EmptyFs, DOT, Dir(<<<<".","g","i","t">>, T_docs>>)), T_docs, Dir(<<>>))

FsSnapshots ==
    { Fs0,
      Put(Fs0, T_list \o DOT_TXT, File(T_eggs)),
      Put(Fs0, T_list \o DOT_TXT, File(<<>>)),
      Put(Put(Fs0, T_list \o DOT_TXT, LockedFile(T_eggs)), RESPONSES_PATH, LockedFile(<<>>)) }

BaseEnv ==
    [exec |-> "ok", reply1 |-> Null, reply2 |-> Null, now |-> <<"2","0","2","6","-","0","1","-","0","1"," ","0","0",":","0","0",":","0","0">>, fs |-> Fs0, fault |-> FALSE]

\* the outcomes of the calls the handler named handler makes
EnvFor(handler) ==
    IF handler \in {A_open_application, A_close_application, A_system_control,
                    A_volume_control, A_window_control}
    THEN { [BaseEnv EXCEPT !.exec = x] : x \in ExecOutcomes }
    ELSE IF handler = A_gemini_reply
    THEN { [BaseEnv EXCEPT !.reply1 = r1, !.reply2 = r2, !.fs = f, !.fault = b] :
           r1 \in Replies, r2 \in Replies, f \in FsSnapshots, b \in BOOLEAN }
    ELSE IF handler = A_file_io
    THEN { [BaseEnv EXCEPT !.fs = f, !.fault = b] : f \in FsSnapshots, b \in BOOLEAN }
    ELSE { BaseEnv }

(***************************************************************************)
(* main.py: the conversation loop.                                         *)
(*                                                                         *)
(* pc is where the conversation thread is:                                 *)
(*   "LoopTop"          line 74, about to test STOP_REQUESTED              *)
(*   "WakeWait"         line 78, inside listen_for_wake_word               *)
(*   "CommandCapture"   line 88, inside listen_for_command                 *)
(*   "Classify"         line 96, about to call parse_command_with_gemini   *)
(*   "Execute"          line 100, about to call execute_action             *)
(*   "FollowupCapture"  line 107, inside listen_for_command                *)
(*   "ShutDown"         past line 129, the loop has ended                  *)
(* The spec's Idle is LoopTop and WakeWait, its Dispatching is Classify    *)
(* and Execute, its ShuttingDown is ShutDown.                              *)
(***************************************************************************)
VARIABLES
    pc,              \* position of the conversation thread
    STOP_REQUESTED,  \* the module's stop flag
    platform,        \* sys.platform
    command_text,    \* main's local command_text (Null before it is bound)
    nlu_result,      \* main's local nlu_result
    spoken,          \* what the last step of the thread spoke, in order
    handler,         \* history: the handler the last execute_action ran
    result,          \* history: what that handler did
    dispatched,      \* history: the arguments of the last execute_action
    turn,            \* history: what has happened since the wake word
    exit_reason,     \* history: why the loop ended
    gui_calls,       \* the calls the last step of the thread made on gui
    logged,          \* what the last step of the thread wrote with main's logger
    gui              \* the AlphaGUI object and its thread

vars == <<pc, STOP_REQUESTED, platform, command_text, nlu_result, spoken,
          handler, result, dispatched, turn, exit_reason, gui_calls, logged, gui>>

NoIntent == [action |-> Absent, parameters |-> NoObj("absent")]

NoResult == WithFs(Return("None", <<>>, <<>>), EmptyFs)

NoDispatch == [nlu_result |-> NoIntent, original_command |-> Null, env |-> BaseEnv]

\* nothing has happened yet in this turn
NoUpstream == [kind |-> "none", json |-> NoIntent]

NewTurn ==
    [first_command |-> Null,   \* the command captured after the wake word
     last_capture |-> Null,    \* what the last capture returned
     classified |-> Null,      \* the text of the last classification
     upstream |-> NoUpstream,  \* what the model did in the classification
                               \* whose nlu_result is not dispatched yet
     captures |-> 0,           \* captures started
     classifications |-> 0,    \* calls of parse_command_with_gemini
     handler_calls |-> 0,      \* calls of execute_action
     followups |-> 0]          \* entries into FollowupCapture

\* n + 1, for a history counter that stops counting at MaxCount
Count(n) == IF n < MaxCount THEN n + 1 ELSE n

LISTENING_PROMPT == "How can I help you?"
NO_RESPONSE == "No response heard. Returning to wake word detection."
CRITICAL_ERROR == "A critical error has occurred and Alpha is shutting down."
GOODBYE == "Goodbye."

\* a call of main on gui: log_text, update_status, set_listening put
\* (kind, payload) on the queue, stop asks the GUI thread to close the window
GuiCall(kind, msg, args) == [kind |-> kind, payload |-> Say(msg, args)]

\* lines 80-83 (the dash of the status text is written "-")
WakeCalls ==
    <<GuiCall("listening", "True", <<>>),
      GuiCall("status", "Status: Wake word detected - Listening for command", <<>>),
      GuiCall("log", "Wake word detected.", <<>>)>>

\* lines 116-118, at the end of the body of `if listen_for_wake_word():`
IdleCalls ==
    <<GuiCall("listening", "False", <<>>), GuiCall("status", "Status: Idle", <<>>)>>

\* lines 133-135
ShutDownCalls ==
    <<GuiCall("log", "Assistant shutting down...", <<>>), GuiCall("stop", "", <<>>)>>

LogLine(level, msg) == [level |-> level, msg |-> msg]

SHUT_DOWN_LINE == LogLine("info", "--- Alpha Voice Assistant Shut Down ---")

\* AlphaGUI after start(); the GUI thread is in root.mainloop() with the
\* status label at its initial text, and line 65 of main has put its line
NewGui ==
    [q |-> <<GuiCall("log", "TTS initialized. Starting assistant...", <<>>)>>,
     pc |-> "mainloop",            \* "mainloop", "finally" (lines 112-118), "ended"
     root |-> "alive",             \* "alive" or "destroyed"
     status_var |-> "Status: Initializing...",
     destroy_scheduled |-> FALSE]  \* root.after(0, self.root.destroy) is pending

Init ==
    /\ gui_calls = <<>>
    /\ logged = <<>>
    /\ gui = NewGui
    /\ pc = "LoopTop"
    /\ STOP_REQUESTED = FALSE
    /\ platform \in Platforms
    /\ command_text = Null
    /\ nlu_result = NoIntent
    /\ spoken = <<>>
    /\ handler = Null
    /\ result = NoResult
    /\ dispatched = NoDispatch
    /\ turn = NewTurn
    /\ exit_reason = "none"

\* a variant with `if command_text is not None:`
AfterCommand_not_none(text) == IF text # Null THEN "Classify" ELSE "LoopTop"

\* `if command_text:` (line 90): where the thread goes after the first capture
AfterCommand(text) == IF Truthy(text) THEN "Classify" ELSE "LoopTop"

\* a variant with `if should_relisten is not False:`
AfterDispatch_not_false(should_relisten) ==
    IF should_relisten # "False" THEN "FollowupCapture" ELSE "LoopTop"

\* `if should_relisten:` (line 102)
AfterDispatch(should_relisten) ==
    IF TruthyRet(should_relisten) THEN "FollowupCapture" ELSE "LoopTop"

\* a variant with `if command_text is None:`
AfterFollowup_not_none(text) == IF text # Null THEN "Classify" ELSE "LoopTop"

\* `if not command_text:` (line 108)
AfterFollowup(text) == IF Truthy(text) THEN "Classify" ELSE "LoopTop"

\* `command_text = listen_for_command()` (line 107): the new command_text
FollowupAssign(old_command_text, captured) == captured

\* a variant that keeps the first utterance of the turn as the original command
OriginalCommandArg_first(text, first_command) == first_command

\* the second argument of execute_action (line 100)
OriginalCommandArg(text, first_command) == text

\* The locals command_text and nlu_result are dead (both are assigned again
\* before they are read, or main is over): the model forgets them, and the
\* history of the turn with them
Forget ==
    /\ command_text' = Null
    /\ nlu_result' = NoIntent
    /\ handler' = Null
    /\ result' = NoResult
    /\ dispatched' = NoDispatch
    /\ turn' = NewTurn

\* a variant that leaves without the farewell
Fatal_silent(said) ==
    /\ pc' = "ShutDown"
    /\ spoken' = said
    /\ exit_reason' = "fatal"
    /\ logged' = <<SHUT_DOWN_LINE>>
    /\ gui_calls' = ShutDownCalls

\* the except clause of line 125: a farewell, then the loop is over
Fatal(said) ==
    /\ pc' = "ShutDown"
    /\ spoken' = said \o <<Say(CRITICAL_ERROR, <<>>)>>
    /\ exit_reason' = "fatal"
    /\ logged' = <<LogLine("critical", "A fatal unhandled error occurred: {e}"), SHUT_DOWN_LINE>>
    /\ gui_calls' = ShutDownCalls

\* lines 74-76: the stop flag is seen at the top of the outer loop
CheckStop ==
    /\ pc = "LoopTop"
    /\ STOP_REQUESTED
    /\ pc' = "ShutDown"
    /\ exit_reason' = "stop"
    /\ spoken' = <<>>
    /\ logged' = <<LogLine("info", "Stop requested by GUI. Shutting down main loop."),
                   SHUT_DOWN_LINE>>
    /\ gui_calls' = ShutDownCalls
    /\ Forget
    /\ UNCHANGED <<STOP_REQUESTED, platform>>

\* line 78: the thread enters listen_for_wake_word
StartWakeWait ==
    /\ pc = "LoopTop"
    /\ ~STOP_REQUESTED
    /\ pc' = "WakeWait"
    /\ spoken' = <<>>
    /\ logged' = <<>>
    /\ gui_calls' = <<>>
    /\ Forget
    /\ UNCHANGED <<STOP_REQUESTED, platform, exit_reason>>

\* lines 78-88 and 120: listen_for_wake_word returns (or raises)
WakeWordReturn(heard) ==
    LET r == listen_for_wake_word(heard)
    IN  /\ pc = "WakeWait"
        /\ IF r.raised
           THEN /\ Fatal(<<>>)
                /\ UNCHANGED <<turn, handler, result, dispatched, nlu_result>>
           ELSE IF TruthyRet(r.ret)
           THEN /\ pc' = "CommandCapture"
                /\ spoken' = <<Say(LISTENING_PROMPT, <<>>)>>
                /\ logged' = <<>>
                /\ gui_calls' = WakeCalls
                /\ turn' = [NewTurn EXCEPT !.captures = 1]
                /\ UNCHANGED <<handler, result, dispatched, nlu_result, exit_reason>>
           ELSE /\ pc' = "LoopTop"
                /\ spoken' = <<>>
                /\ logged' = <<>>
                /\ gui_calls' = <<>>
                /\ UNCHANGED <<turn, handler, result, dispatched, nlu_result, exit_reason>>
        /\ UNCHANGED <<STOP_REQUESTED, platform, command_text>>

\* lines 88-92 and 116-120: the first capture of the turn returns
CommandCaptured(heard) ==
    LET r == listen_for_command(heard)
    IN  /\ pc = "CommandCapture"
        /\ IF r.raised
           THEN /\ Fatal(<<>>)
                /\ UNCHANGED <<command_text, turn>>
           ELSE /\ command_text' = r.text
                /\ pc' = AfterCommand(r.text)
                /\ spoken' = r.spoken
                /\ logged' = <<>>
                /\ gui_calls' = IF Truthy(r.text)
                                THEN <<GuiCall("log", "User command: {command_text}", <<r.text>>)>>
                                ELSE IdleCalls
                /\ turn' = [turn EXCEPT !.first_command = r.text, !.last_capture = r.text]
                /\ UNCHANGED exit_reason
        /\ UNCHANGED <<STOP_REQUESTED, platform, nlu_result, handler, result, dispatched>>

\* line 96
Classify(upstream) ==
    /\ pc = "Classify"
    /\ nlu_result' = parse_command_with_gemini(command_text, upstream.kind # "no_key", upstream)
    /\ pc' = "Execute"
    /\ spoken' = <<>>
    /\ logged' = <<>>
    /\ gui_calls' = <<>>
    /\ turn' = [turn EXCEPT !.classifications = Count(@), !.classified = command_text,
                            !.upstream = upstream]
    /\ UNCHANGED <<STOP_REQUESTED, platform, command_text, handler, result, dispatched,
                   exit_reason>>

\* lines 100-106 and 112-120: execute_action, then the branch on its result
Execute(e) ==
    LET original_command == OriginalCommandArg(command_text, turn.first_command)
        x == execute_action(nlu_result, original_command, platform, e)
        next == AfterDispatch(x.result.ret)
    IN  /\ pc = "Execute"
        /\ handler' = x.handler
        /\ result' = x.result
        /\ dispatched' = [nlu_result |-> nlu_result, original_command |-> original_command,
                          env |-> e]
        /\ IF x.result.raised
           THEN /\ Fatal(x.result.spoken)
                /\ turn' = [turn EXCEPT !.handler_calls = Count(@), !.upstream = NoUpstream]
           ELSE /\ pc' = next
                /\ spoken' = x.result.spoken
                /\ logged' = <<>>
                /\ gui_calls' = IF next = "FollowupCapture"
                                THEN <<GuiCall("log", "Prompted follow-up: {command_text}",
                                               <<command_text>>)>>
                                ELSE IdleCalls
                /\ turn' = [turn EXCEPT !.handler_calls = Count(@),
                                        !.upstream = NoUpstream,
                                        !.followups = IF next = "FollowupCapture"
                                                      THEN Count(@) ELSE @,
                                        !.captures = IF next = "FollowupCapture"
                                                     THEN Count(@) ELSE @]
                /\ UNCHANGED exit_reason
        /\ UNCHANGED <<STOP_REQUESTED, platform, command_text, nlu_result>>

\* lines 107-111 and 116-120: the follow-up capture returns.  nlu_result is
\* dead here (line 96 assigns it before it is read again); the model forgets
\* it and the history of the dispatch that asked for the follow-up
FollowupCaptured(heard) ==
    LET r == listen_for_command(heard)
        text == FollowupAssign(command_text, r.text)
    IN  /\ pc = "FollowupCapture"
        /\ IF r.raised
           THEN /\ Fatal(<<>>)
                /\ UNCHANGED <<command_text, turn>>
           ELSE /\ command_text' = text
                /\ pc' = AfterFollowup(text)
                /\ spoken' = IF Truthy(text) THEN r.spoken
                             ELSE r.spoken \o <<Say(NO_RESPONSE, <<>>)>>
                /\ logged' = <<>>
                /\ gui_calls' = IF Truthy(text) THEN <<>> ELSE IdleCalls
                /\ turn' = [turn EXCEPT !.last_capture = r.text]
                /\ UNCHANGED exit_reason
        /\ nlu_result' = NoIntent
        /\ handler' = Null
        /\ result' = NoResult
        /\ dispatched' = NoDispatch
        /\ UNCHANGED <<STOP_REQUESTED, platform>>

\* _request_stop, run by the GUI thread (Quit button, window close)
RequestStop ==
    /\ ~STOP_REQUESTED
    /\ STOP_REQUESTED' = TRUE
    /\ UNCHANGED <<pc, platform, command_text, nlu_result, spoken, handler, result,
                   dispatched, turn, exit_reason, gui_calls, logged>>

\* lines 122-124: Ctrl+C while the loop runs
KeyboardInterrupt ==
    /\ pc # "ShutDown"
    /\ pc' = "ShutDown"
    /\ spoken' = <<Say(GOODBYE, <<>>)>>
    /\ exit_reason' = "interrupt"
    /\ logged' = <<LogLine("info", "Alpha manually stopped by user (Ctrl+C)."), SHUT_DOWN_LINE>>
    /\ gui_calls' = ShutDownCalls
    /\ Forget
    /\ UNCHANGED <<STOP_REQUESTED, platform>>

\* the handler execute_action will look up for the pending nlu_result
PendingHandler == HandlerFor(ActionOf(nlu_result))

Next ==
    \/ CheckStop /\ UNCHANGED gui
    \/ StartWakeWait /\ UNCHANGED gui
    \/ \E heard \in WakeHeard : WakeWordReturn(heard) /\ UNCHANGED gui
    \/ \E heard \in Heard : CommandCaptured(heard) /\ UNCHANGED gui
    \/ \E upstream \in Upstreams(LoopIntents) : Classify(upstream) /\ UNCHANGED gui
    \/ \E e \in EnvFor(PendingHandler) : Execute(e) /\ UNCHANGED gui
    \/ \E heard \in Heard : FollowupCaptured(heard) /\ UNCHANGED gui
    \/ RequestStop /\ UNCHANGED gui
    \/ KeyboardInterrupt /\ UNCHANGED gui

Spec == Init /\ [][Next]_vars

(***************************************************************************)
(* The loop under the scheduling the code guarantees: the conversation     *)
(* thread always takes its next step, and every call with a bounded wait   *)
(* returns (listen_for_command has timeout=8, the classifier and the       *)
(* handlers are taken to return).  listen_for_wake_word waits with         *)
(* timeout=None, so nothing makes it return; nothing makes the user quit.  *)
(* The inputs are a few of those of Spec: a cue without its object and a   *)
(* plain answer, an unknown intent, a handler that returns and one that    *)
(* raises.                                                                 *)
(***************************************************************************)
FairHeard ==
    { [kind |-> k, text |-> <<>>] : k \in {"timeout", "mic_error"} }
    \cup { [kind |-> "text", text |-> u] : u \in {W_open, W_queen} }

FairUpstreams ==
    { [kind |-> "api_error", json |-> [action |-> Absent, parameters |-> NoObj("absent")]] }
    \cup { [kind |-> "object", json |-> j] :
           j \in IntentsOf(A_unknown, "reason", {T_ambiguous}, "question", {Absent})
                 \cup IntentsOf(A_close_application, "app_name", {W_chrome}, "question", {Absent})
                 \cup IntentsOf(A_web_search, "query", {T_cats}, "engine", {Null}) }

FairNext ==
    \/ CheckStop /\ UNCHANGED gui
    \/ StartWakeWait /\ UNCHANGED gui
    \/ \E heard \in WakeHeard : WakeWordReturn(heard) /\ UNCHANGED gui
    \/ \E heard \in FairHeard : CommandCaptured(heard) /\ UNCHANGED gui
    \/ \E upstream \in FairUpstreams : Classify(upstream) /\ UNCHANGED gui
    \/ \E e \in EnvFor(PendingHandler) : Execute(e) /\ UNCHANGED gui
    \/ \E heard \in FairHeard : FollowupCaptured(heard) /\ UNCHANGED gui
    \/ RequestStop /\ UNCHANGED gui
    \/ KeyboardInterrupt /\ UNCHANGED gui

FairSpec ==
    /\ Init
    /\ [][FairNext]_vars
    /\ WF_vars(CheckStop /\ UNCHANGED gui)
    /\ WF_vars(StartWakeWait /\ UNCHANGED gui)
    /\ WF_vars(\E heard \in FairHeard : CommandCaptured(heard) /\ UNCHANGED gui)
    /\ WF_vars(\E upstream \in FairUpstreams : Classify(upstream) /\ UNCHANGED gui)
    /\ WF_vars(\E e \in EnvFor(PendingHandler) : Execute(e) /\ UNCHANGED gui)
    /\ WF_vars(\E heard \in FairHeard : FollowupCaptured(heard) /\ UNCHANGED gui)

(***************************************************************************)
(* execute_action alone: the thread is at line 100 with any utterance and  *)
(* any nlu_result parse_command_with_gemini can return for it.             *)
(***************************************************************************)
DispatchInit ==
    /\ gui_calls = <<>>
    /\ logged = <<>>
    /\ gui = NewGui
    /\ pc = "Execute"
    /\ STOP_REQUESTED = FALSE
    /\ platform \in Platforms
    /\ command_text \in Utterances
    /\ nlu_result \in { parse_command_with_gemini(command_text, upstream.kind # "no_key", upstream) :
                        upstream \in Upstreams(UpstreamIntents) }
    /\ spoken = <<>>
    /\ handler = Null
    /\ result = NoResult
    /\ dispatched = NoDispatch
    /\ turn = [NewTurn EXCEPT !.first_command = command_text,
                              !.last_capture = command_text,
                              !.classified = command_text,
                              !.captures = 1,
                              !.classifications = 1]
    /\ exit_reason = "none"

DispatchNext == \E e \in EnvFor(PendingHandler) : Execute(e) /\ UNCHANGED gui

DispatchSpec == DispatchInit /\ [][DispatchNext]_vars

(***************************************************************************)
(* Properties of the conversation loop and of the dispatcher.              *)
(***************************************************************************)
Dispatched == dispatched # NoDispatch

Idle == pc \in {"LoopTop", "WakeWait"}

\* the command text contains one of the cues of the unknown handler
CueIn(text) ==
    LET c == Strip(Lower(text))
    IN  \/ Contains(c, W_explain_about)
        \/ Contains(c, W_tell_me_about)
        \/ Contains(c, W_play) /\ (\/ Contains(c, W_song)
                                   \/ Contains(c, W_video)
                                   \/ Contains(c, W_on_youtube))
        \/ Contains(c, W_open)
        \/ Contains(c, W_go_to)

\* the command text names something for its cue to act on
ObjectWords == {W_chrome, W_queen}

LacksObject(text) == \A w \in ObjectWords : ~Contains(Lower(text), w)

\* C1: an intent whose kind is not registered is handled by the unknown
\* handler, which returns; the dispatch is no error and the loop goes on.
C1_UnregisteredKindIsHandled ==
    (Dispatched /\ ActionOf(dispatched.nlu_result) \notin RegisteredActions)
        => (handler = A_unknown /\ ~result.raised /\ exit_reason # "fatal")

\* C2: within one turn the loop enters the follow-up capture at most once.
C2_AtMostOneFollowup == turn.followups <= 1

\* C3: a turn that reached the classifier ends: the loop is back to idle
\* (or has shut down) after finitely many steps.
C3_TurnEnds == (pc = "Classify") ~> (Idle \/ pc = "ShutDown")

\* C4: once the stop flag is set the loop shuts down, whatever it is doing.
C4_StopShutsDown == STOP_REQUESTED ~> (pc = "ShutDown")

\* C5: no dispatch ends in an exception: the handler returns to the loop.
C5_DispatchNeverRaises == Dispatched => ~result.raised

\* C6 as stated: the original command of every dispatch of a turn is the
\* first utterance of that turn.
C6_OriginalCommandIsFirstUtterance ==
    Dispatched => dispatched.original_command = turn.first_command

\* C6 as the code has it: the original command of every dispatch is the
\* text of the latest capture, which is also the text that was classified.
C6_OriginalCommandIsLatestCapture ==
    Dispatched => /\ dispatched.original_command = turn.last_capture
                  /\ dispatched.original_command = turn.classified

C6_RedispatchedWithFollowup ==
    /\ Dispatched
    /\ turn.followups >= 1
    /\ turn.last_capture # turn.first_command
    /\ dispatched.original_command = turn.last_capture

C8_NoRelistenEndsTurn ==
    [][/\ (pc = "Execute" /\ dispatched' # NoDispatch /\ ~result'.raised
              /\ ~TruthyRet(result'.ret))
           => (pc' = "LoopTop" /\ exit_reason' = "none"
                  /\ turn'.captures = turn.captures
                  /\ turn'.classifications = turn.classifications)
       /\ (pc = "LoopTop")
           => (pc' \in {"LoopTop", "WakeWait", "ShutDown"} /\ turn' \in {turn, NewTurn})
      ]_vars

C8_FailedHandlerEndedTurn ==
    /\ pc = "LoopTop"
    /\ Dispatched
    /\ handler = A_system_control
    /\ ~result.raised
    /\ result.ret = "None"
    /\ \E i \in 1..Len(result.spoken) :
          result.spoken[i].msg = "Sorry, the system control command '{command}' failed."
    /\ turn.followups = 0

\* C9: when the first capture of a turn returns nothing, the loop is back
\* at its top without any classification or handler call.
C9_EmptyCaptureSkipsDispatch ==
    (turn.captures >= 1 /\ ~Truthy(turn.first_command)
        /\ pc # "CommandCapture" /\ exit_reason = "none")
        => /\ pc = "LoopTop"
           /\ turn.classifications = 0
           /\ turn.handler_calls = 0
           /\ nlu_result = NoIntent
           /\ ~Dispatched

C9_EmptyCaptureSeen ==
    /\ pc = "LoopTop"
    /\ turn.captures = 1
    /\ turn.first_command = Null
    /\ spoken # <<>>

\* C10: when the follow-up capture returns nothing, the loop says that no
\* response was heard and is back at its top, with no further
\* classification or handler call.
C10_EmptyFollowupEndsTurn ==
    (turn.followups >= 1 /\ ~Truthy(turn.last_capture)
        /\ pc # "FollowupCapture" /\ exit_reason = "none")
        => /\ pc = "LoopTop"
           /\ spoken # <<>>
           /\ spoken[Len(spoken)] = Say(NO_RESPONSE, <<>>)
           /\ turn.classifications = turn.followups
           /\ turn.handler_calls = turn.followups
           /\ nlu_result = NoIntent
           /\ ~Dispatched

C10_EmptyFollowupSeen ==
    /\ pc = "LoopTop"
    /\ turn.followups >= 1
    /\ turn.last_capture = Null
    /\ spoken[Len(spoken)] = Say(NO_RESPONSE, <<>>)

\* C11: once the stop flag is set no loop iteration begins: the outer loop
\* starts no wake-word wait and the inner loop, back from a follow-up
\* capture, starts no classification.
C11_StopSeenByEveryIteration ==
    [][STOP_REQUESTED =>
          /\ ~(pc = "LoopTop" /\ pc' = "WakeWait")
          /\ ~(pc = "FollowupCapture" /\ pc' = "Classify")
      ]_vars

\* the classification could not produce an intent: no key, an error of the
\* call, no JSON, JSON that is no object, or an unknown intent whose
\* parameters are no object
ClassificationFailed(upstream) ==
    \/ upstream.kind \in {"no_key", "api_error", "not_json", "non_object", "error"}
    \/ /\ upstream.kind = "object"
       /\ ActionOf(upstream.json) = A_unknown
       /\ ~IsDict(upstream.json.parameters)

\* C12: after a failed classification parse_command_with_gemini returns an
\* unknown intent whose parameters are an object with a reason and with the
\* input text as original_command.
C12_FailureBecomesUnknownIntent ==
    (pc = "Execute" /\ ClassificationFailed(turn.upstream))
        => /\ ActionOf(nlu_result) = A_unknown
           /\ IsDict(nlu_result.parameters)
           /\ IsStr(nlu_result.parameters.obj["reason"])
           /\ nlu_result.parameters.obj["original_command"] = command_text

\* the parameter each of these handlers cannot do without
RequiredParameter ==
    [h \in {A_gemini_reply, A_open_website, A_open_application, A_close_application,
            A_youtube_search, A_youtube_play, A_web_search, A_system_control} |->
        IF h = A_gemini_reply THEN "answer"
        ELSE IF h = A_open_website THEN "url"
        ELSE IF h \in {A_open_application, A_close_application} THEN "app_name"
        ELSE IF h \in {A_youtube_search, A_web_search} THEN "query"
        ELSE IF h = A_youtube_play THEN "song_name"
        ELSE "command"]

\* the intent is for one of these handlers and its required parameter is
\* not there (no parameters, null parameters, no such key) or is empty
MissingRequired(intent) ==
    /\ ActionOf(intent) \in DOMAIN RequiredParameter
    /\ intent.parameters.shape \in {"absent", "null", "object"}
    /\ \/ intent.parameters.shape = "null"
       \/ ~Truthy(Get(ParametersOf(intent), RequiredParameter[ActionOf(intent)], Null))

\* C13: a handler whose required parameter is missing or empty speaks one
\* prompt, attempts no side effect and asks for no follow-up.
C13_MissingParameterPrompts ==
    (Dispatched /\ MissingRequired(dispatched.nlu_result))
        => /\ ~result.raised
           /\ Len(result.spoken) = 1
           /\ result.effects = <<>>
           /\ ~TruthyRet(result.ret)

\* what the dispatched intent asks handle_file_io for
FileRequest ==
    LET params == ParametersOf(dispatched.nlu_result)
    IN  [operation |-> Get(params, "operation", Null),
         file_name |-> Get(params, "file_name", Null),
         content |-> Get(params, "content", Null)]

FileDispatched ==
    /\ Dispatched
    /\ ActionOf(dispatched.nlu_result) = A_file_io
    /\ IsDict(ParametersOf(dispatched.nlu_result))

\* C14: a create, append, read or delete without a file name (missing,
\* null or empty) asks for a file name and does nothing to the file system.
C14_NoFileNameNoOperation ==
    (FileDispatched /\ FileRequest.operation \in FileOperations /\ ~Truthy(FileRequest.file_name))
        => /\ ~result.raised
           /\ result.spoken = <<Say("Please specify a file name for the '{operation}' operation.",
                                    <<FileRequest.operation>>)>>
           /\ result.effects = <<>>
           /\ result.fs = dispatched.env.fs

\* the first cue pattern the command text matches, in the order explanation
\* request, play request, open or navigate request, generic fallback
FirstPattern(text) ==
    LET c == Strip(Lower(text))
    IN  IF Contains(c, W_explain_about) \/ Contains(c, W_tell_me_about) THEN "explain"
        ELSE IF Contains(c, W_play) /\ (\/ Contains(c, W_song)
                                        \/ Contains(c, W_video)
                                        \/ Contains(c, W_on_youtube)) THEN "play"
        ELSE IF Contains(c, W_open) \/ Contains(c, W_go_to) THEN "open"
        ELSE "fallback"

PatternMessage ==
    [p \in {"explain", "play", "open", "fallback"} |->
        IF p = "explain" THEN "What do you want me to explain about?"
        ELSE IF p = "play" THEN "What song or video should I play?"
        ELSE IF p = "open" THEN "What application or website do you want me to open?"
        ELSE "I'm sorry, I didn't understand the command. The NLU reason was: {reason}"]

\* C15: every dispatch to the unknown handler speaks exactly one message,
\* that of the first pattern its command text matches, and asks for a
\* follow-up exactly when that pattern is not the fallback, which speaks
\* the reason.
C15_FirstMatchingPatternWins ==
    (Dispatched /\ handler = A_unknown)
        => LET p == FirstPattern(dispatched.original_command)
           IN  /\ ~result.raised
               /\ Len(result.spoken) = 1
               /\ result.spoken[1].msg = PatternMessage[p]
               /\ TruthyRet(result.ret) <=> p # "fallback"
               /\ p = "fallback" =>
                     result.spoken[1].args =
                        <<Format(Get(ParametersOf(dispatched.nlu_result), "reason", DEFAULT_REASON))>>

PlayASong == W_Play \o SP \o W_a \o SP \o W_song

\* the dispatched intent is an unknown intent with the reason "ambiguous"
AmbiguousDispatched ==
    /\ Dispatched
    /\ ActionOf(dispatched.nlu_result) = A_unknown
    /\ IsDict(ParametersOf(dispatched.nlu_result))
    /\ Get(ParametersOf(dispatched.nlu_result), "reason", Null) = T_ambiguous

\* C16 as stated: for the utterance "play" classified as unknown the
\* handler asks what to play and asks for a follow-up.
C16_PlayAloneAsksWhatToPlay ==
    (AmbiguousDispatched /\ dispatched.original_command = W_play)
        => /\ result.spoken = <<Say("What song or video should I play?", <<>>)>>
           /\ TruthyRet(result.ret)

\* C16 as the code has it: "play" alone matches no cue, the handler speaks
\* the generic apology with the reason and the turn ends; "Play a song"
\* makes it ask what to play and ask for a follow-up, and the next
\* non-empty capture is the text of the next classification.
C16_PlayNeedsSongOrVideo ==
    /\ (AmbiguousDispatched /\ dispatched.original_command = W_play)
          => /\ result.spoken =
                   <<Say("I'm sorry, I didn't understand the command. The NLU reason was: {reason}",
                         <<T_ambiguous>>)>>
             /\ result.ret = "False"
             /\ pc = "LoopTop"
    /\ (AmbiguousDispatched /\ dispatched.original_command = PlayASong)
          => /\ result.spoken = <<Say("What song or video should I play?", <<>>)>>
             /\ result.ret = "True"
             /\ pc = "FollowupCapture"
    /\ (pc = "Classify" /\ turn.followups >= 1)
          => (Truthy(command_text) /\ command_text = turn.last_capture)
    /\ (pc = "Execute" /\ turn.followups >= 1)
          => (turn.classified = turn.last_capture /\ turn.upstream.kind # "none")

C16_AnswerToPlayPromptClassified ==
    /\ pc = "Execute"
    /\ turn.followups = 1
    /\ turn.first_command = PlayASong
    /\ turn.classified = W_queen

\* w is one of the words of the text s (or a run of its words)
HasWord(s, w) ==
    \E i \in 1..(Len(s) - Len(w) + 1) :
        /\ SubSeq(s, i, i + Len(w) - 1) = w
        /\ i = 1 \/ s[i - 1] = " "
        /\ i + Len(w) - 1 = Len(s) \/ s[i + Len(w)] = " "

\* the reply handle_gemini_reply goes by: the first one, or the second one
\* when the first listen heard nothing
ConfirmationReply ==
    IF Truthy(dispatched.env.reply1) THEN dispatched.env.reply1 ELSE dispatched.env.reply2

\* the reply is there and one of its words is in the affirmative set
SaysYes(reply) ==
    Truthy(reply) /\ \E w \in AffirmativeWords : HasWord(Lower(reply), w)

\* C17: the knowledge-reply handler changes the file system only when the
\* confirmation has a word of the affirmative set; with any other reply,
\* or none after the re-prompt, every file is as it was.
C17_SavedOnlyOnYes ==
    (Dispatched /\ handler = A_gemini_reply /\ result.fs # dispatched.env.fs)
        => SaysYes(ConfirmationReply)

\* the knowledge-reply handler said that it saved the response
ResponseSaved ==
    /\ Dispatched
    /\ handler = A_gemini_reply
    /\ ~result.raised
    /\ result.spoken # <<>>
    /\ result.spoken[Len(result.spoken)].msg = "Saved the response to my memory."

\* C18: a saved response adds one record to the response log: separator,
\* timestamp, question, separator, answer, blank line, where the question
\* is the utterance that was dispatched.
C18_RecordHoldsTheUtterance ==
    ResponseSaved
        => Stat(result.fs, RESPONSES_PATH).content =
              Stat(dispatched.env.fs, RESPONSES_PATH).content
              \o ResponseEntry(dispatched.env.now,
                               dispatched.original_command,
                               Get(ParametersOf(dispatched.nlu_result), "answer", Null))

(***************************************************************************)
(* Successive file_io dispatches over one file system: every call of       *)
(* execute_action finds the files the call before it left.  A step is      *)
(* lines 96-100 of a turn whose classification is a file_io intent; the    *)
(* rest of the turns is left out.                                          *)
(***************************************************************************)
MaxContent == 10

FileRequests ==
    { [action |-> A_file_io,
       parameters |-> Obj([operation |-> op, file_name |-> name, content |-> text])] :
      op \in {F_create, F_append, F_read, F_delete},
      name \in {T_list, T_list \o DOT_TXT, T_docs},
      text \in {Absent, NonStr, T_milk} }

\* no file of fs is longer than MaxContent
Small(fs) == \A p \in DOMAIN fs : Len(fs[p].content) <= MaxContent

FileInit ==
    /\ gui_calls = <<>>
    /\ logged = <<>>
    /\ gui = NewGui
    /\ pc = "Execute"
    /\ STOP_REQUESTED = FALSE
    /\ platform \in Platforms
    /\ command_text = W_queen
    /\ nlu_result = NoIntent
    /\ spoken = <<>>
    /\ handler = Null
    /\ result \in { WithFs(Return("None", <<>>, <<>>), fs) : fs \in FsSnapshots }
    /\ dispatched = NoDispatch
    /\ turn = [NewTurn EXCEPT !.first_command = command_text,
                              !.last_capture = command_text,
                              !.classified = command_text,
                              !.captures = 1,
                              !.classifications = 1]
    /\ exit_reason = "none"

\* lines 96-100: the classifier returns request, and execute_action runs
\* with the file system the last call left
FileDispatch(fault, request) ==
    LET e == [BaseEnv EXCEPT !.fs = result.fs, !.fault = fault]
        x == execute_action(request, command_text, platform, e)
    IN  /\ pc = "Execute"
        /\ Small(x.result.fs)
        /\ nlu_result' = request
        /\ handler' = x.handler
        /\ result' = x.result
        /\ dispatched' = [nlu_result |-> request, original_command |-> command_text,
                          env |-> e]
        /\ spoken' = x.result.spoken
        /\ pc' = IF x.result.raised THEN "ShutDown" ELSE "Execute"
        /\ exit_reason' = IF x.result.raised THEN "fatal" ELSE "none"
        /\ UNCHANGED <<STOP_REQUESTED, platform, command_text, turn, gui_calls, logged, gui>>

FileNext == \E fault \in BOOLEAN, request \in FileRequests : FileDispatch(fault, request)

FileSpec == FileInit /\ [][FileNext]_vars

\* the dispatched request is for a file whose name has no extension and is
\* no existing directory
BareName ==
    /\ FileDispatched
    /\ FileRequest.operation \in FileOperations
    /\ IsStr(FileRequest.file_name)
    /\ FileRequest.file_name # DOT
    /\ ~HasExtension(FileRequest.file_name, platform)
    /\ Stat(dispatched.env.fs, FileRequest.file_name).kind # "dir"

\* the path the handler opened or removed
PathUsed == result.effects[1].arg

\* C19: a name without extension that is no directory gets the default
\* extension once, and the next dispatch with the same name uses the same
\* path, also when the first one has created the file.
C19_ExtensionAddedOnce ==
    [][/\ BareName' => /\ ~result'.raised
                       /\ result'.effects # <<>>
                       /\ PathUsed' = FileRequest'.file_name \o DOT_TXT
       /\ (BareName /\ FileDispatched'
              /\ FileRequest'.file_name = FileRequest.file_name
              /\ FileRequest'.operation \in FileOperations)
            => (BareName' /\ PathUsed' = PathUsed)
      ]_vars

C19_SameNameAfterCreation ==
    /\ BareName
    /\ FileRequest.file_name = T_list
    /\ FileRequest.operation = F_append
    /\ Stat(dispatched.env.fs, T_list \o DOT_TXT).content = T_milk
    /\ PathUsed = T_list \o DOT_TXT

\* an append that reaches open(file_path, 'a') and meets no I/O error
AppendRequest ==
    /\ FileDispatched
    /\ FileRequest.operation = F_append
    /\ IsStr(FileRequest.file_name)
    /\ ~dispatched.env.fault
    /\ result.effects # <<>>
    /\ OpenError(dispatched.env.fs, PathUsed, "a") = ""

\* the content the request gives, as text
GivenContent ==
    IF FileRequest.content \in {Absent, Null} THEN <<>> ELSE Format(FileRequest.content)

ContentBefore == Stat(dispatched.env.fs, PathUsed).content
ContentAfter == Stat(result.fs, PathUsed).content

\* C20: an append to an absent or empty target leaves the file holding
\* exactly the given content; an append of non-blank content to a non-empty
\* target leaves old content, one newline, new content; the old content is
\* always still there, in front.
C20_AppendWritesTheContent ==
    AppendRequest =>
        /\ ContentBefore = <<>> => ContentAfter = GivenContent
        /\ (ContentBefore # <<>> /\ Strip(GivenContent) # <<>>)
              => ContentAfter = ContentBefore \o <<"\n">> \o GivenContent
        /\ Len(ContentAfter) >= Len(ContentBefore)
        /\ SubSeq(ContentAfter, 1, Len(ContentBefore)) = ContentBefore

\* the url of a dispatched open_website intent
UrlGiven == Get(ParametersOf(dispatched.nlu_result), "url", Null)

WebsiteDispatched ==
    /\ Dispatched
    /\ ActionOf(dispatched.nlu_result) = A_open_website
    /\ IsDict(ParametersOf(dispatched.nlu_result))
    /\ IsStr(UrlGiven) /\ UrlGiven # <<>>

HasScheme(url) == StartsWith(url, HTTP) \/ StartsWith(url, HTTPS)

WWW_DOT == <<"w","w","w",".">>

\* the address opened
Opened == result.effects[1].arg

\* C21: open_website opens a url that has a scheme unchanged, and opens a
\* url without one as https:// followed by the given address, whose host
\* name is intact (at most one leading "www." label may be left out).
C21_SchemeAddedHostIntact ==
    WebsiteDispatched =>
        /\ ~result.raised
        /\ Len(result.effects) = 1
        /\ result.effects[1].op = "webbrowser.open"
        /\ HasScheme(UrlGiven) => Opened = UrlGiven
        /\ ~HasScheme(UrlGiven) =>
              \/ Opened = HTTPS \o UrlGiven
              \/ /\ StartsWith(UrlGiven, WWW_DOT)
                 /\ Opened = HTTPS \o SubSeq(UrlGiven, Len(WWW_DOT) + 1, Len(UrlGiven))

\* the query and the engine of a dispatched web_search intent
QueryGiven == Get(ParametersOf(dispatched.nlu_result), "query", Null)
EngineGiven == Get(ParametersOf(dispatched.nlu_result), "engine", Absent)

SearchDispatched ==
    /\ Dispatched
    /\ ActionOf(dispatched.nlu_result) = A_web_search
    /\ IsDict(ParametersOf(dispatched.nlu_result))
    /\ IsStr(QueryGiven) /\ QueryGiven # <<>>
    /\ EngineGiven # NonStr

KnownEngines == {GOOGLE, DUCKDUCKGO, BING}

\* the engine whose template the search is to use
EngineResolved ==
    IF IsStr(EngineGiven) /\ Lower(EngineGiven) \in KnownEngines
    THEN Lower(EngineGiven)
    ELSE DEFAULT_WEB_ENGINE

\* C22: a web_search with a query opens exactly one search URL, that of the
\* requested engine if it is known (whatever its case) and that of the
\* default engine otherwise; an absent, null or unknown engine does not
\* make the handler raise.
C22_SearchOpensOneUrl ==
    SearchDispatched =>
        /\ ~result.raised
        /\ result.effects = <<Effect("webbrowser.open", SearchUrl(EngineResolved, QueryGiven))>>

\* the command of a dispatched system_control intent
CommandGiven == Get(ParametersOf(dispatched.nlu_result), "command", Null)

SystemDispatched ==
    /\ Dispatched
    /\ ActionOf(dispatched.nlu_result) = A_system_control
    /\ IsDict(ParametersOf(dispatched.nlu_result))
    /\ IsStr(CommandGiven) /\ CommandGiven # <<>>

Unsupported == SystemDispatched /\ Lower(CommandGiven) \notin SystemCommands

\* a supported command that the platform refuses or fails
Refused ==
    /\ SystemDispatched
    /\ Lower(CommandGiven) \in SystemCommands
    /\ \/ dispatched.env.exec # "ok"
       \/ Lower(CommandGiven) = <<"s","l","e","e","p">> /\ platform = "win32"

FailureReport ==
    Say("Sorry, the system control command '{command}' failed.", <<CommandGiven>>)

SuccessSpoken ==
    \E i \in DOMAIN result.spoken :
        result.spoken[i].msg \in { SystemDoneMessage(c) : c \in SystemCommands }

FileReached ==
    /\ FileDispatched
    /\ FileRequest.operation \in FileOperations \cup {F_list}
    /\ result.effects # <<>>

NotFoundMessage == "Error: The file or directory '{file_path}' was not found."
PermissionMessage == "Error: I do not have permission to access or modify '{file_path}'."
IsADirectoryMessage == "Error: '{file_path}' is a directory. Please use the 'list' operation to view its contents."
GenericMessage == "A general error occurred during the file operation on {file_path}."

FailureMessages == {NotFoundMessage, PermissionMessage, IsADirectoryMessage, GenericMessage}

\* what is at the path when the handler is called; os.listdir(None) lists
\* the current directory
Target == Stat(dispatched.env.fs, IF PathUsed = Null THEN DOT ELSE PathUsed)

\* the messages the failure of the dispatched operation may get; none when
\* the operation has no reason to fail
FailureExpected ==
    LET op == FileRequest.operation
    IN  IF dispatched.env.fault THEN FailureMessages
        ELSE IF op = F_list
        THEN (IF Target.kind = "none" THEN {NotFoundMessage}
              ELSE IF Target.kind = "file" THEN {GenericMessage}
              ELSE IF Target.locked THEN {PermissionMessage}
              ELSE {})
        ELSE IF Target.kind = "dir"
        THEN (IF op = F_delete THEN {IsADirectoryMessage, PermissionMessage}
              ELSE {IsADirectoryMessage})
        ELSE IF Target.kind = "file" /\ Target.locked THEN {PermissionMessage}
        ELSE IF Target.kind = "none" /\ op \in {F_read, F_delete} THEN {NotFoundMessage}
        ELSE IF op \in {F_create, F_append} /\ FileRequest.content = NonStr THEN {GenericMessage}
        ELSE {}

FileFailed == FileReached /\ result.spoken # <<>> /\ result.spoken[1].msg \in FailureMessages

\* C24: a file_io operation that fails speaks exactly one message, the one
\* of its class of failure (not found, permission denied, is a directory,
\* generic), the four messages differ, and the handler returns; an
\* operation with no reason to fail speaks none of the four.
C24_FailureHasOneClass ==
    FileReached =>
        /\ ~result.raised
        /\ Len(result.spoken) = 1
        /\ Cardinality(FailureMessages) = 4
        /\ FileFailed <=> FailureExpected # {}
        /\ FileFailed => result.spoken[1].msg \in FailureExpected

C24_LockedFileRefused ==
    /\ FileFailed
    /\ Target.kind = "file" /\ Target.locked
    /\ ~dispatched.env.fault
    /\ result.spoken[1].msg = PermissionMessage
    /\ result.fs = dispatched.env.fs

(***************************************************************************)
(* gui.py: the loop together with the GUI thread.  Every step of the       *)
(* conversation thread hands its calls to gui: a put appends to the queue  *)
(* (queue.Queue() has no maximum size, a put does not wait), stop()        *)
(* schedules root.destroy on the GUI thread when there is a window, and is *)
(* silent when there is none (lines 206-212).  The GUI thread takes the    *)
(* messages one by one (_process_queue), and the user can close the        *)
(* window.  The model follows the queue up to MaxQueue messages; the       *)
(* inputs are those of FairSpec.                                           *)
(***************************************************************************)
MaxQueue == 4

\* the messages among calls, in order
Puts(calls) == SelectSeq(calls, LAMBDA c : c.kind # "stop")

StopCalled(calls) == \E i \in DOMAIN calls : calls[i].kind = "stop"

\* gui after the conversation thread has made calls on it
Called(g, calls) ==
    [g EXCEPT !.q = @ \o Puts(calls),
              !.destroy_scheduled = @ \/ (StopCalled(calls) /\ g.root = "alive")]

\* _process_queue, lines 171-179: what one message does to the status label
Applied(status_var, message) ==
    IF message.kind = "status" THEN message.payload.msg
    ELSE IF message.kind = "listening"
    THEN (IF message.payload.msg = "True"
          THEN "Status: Listening... (wake word detected)"
          ELSE "Status: Idle")
    ELSE status_var

\* the calls of this step of the conversation thread reach gui
Deliver ==
    /\ gui' = Called(gui, gui_calls')
    /\ Len(gui'.q) <= MaxQueue

\* _process_queue: one self._q.get_nowait() and its branch
ProcessQueue ==
    /\ gui.pc = "mainloop"
    /\ gui.q # <<>>
    /\ gui' = [gui EXCEPT !.q = Tail(@), !.status_var = Applied(@, Head(gui.q))]
    /\ UNCHANGED <<pc, STOP_REQUESTED, platform, command_text, nlu_result, spoken, handler,
                   result, dispatched, turn, exit_reason, gui_calls, logged>>

\* a variant that flips the flag
request_stop_toggling(stop_requested) == ~stop_requested

\* _request_stop (main.py lines 21-25), the on_quit of the GUI
request_stop(stop_requested) == TRUE

\* _on_window_close, lines 120-127 (the Quit button calls it, line 130): the
\* window goes, mainloop returns, and the quit callback runs
WindowClose ==
    /\ gui.pc = "mainloop"
    /\ gui' = [gui EXCEPT !.root = "destroyed", !.pc = "finally", !.destroy_scheduled = FALSE]
    /\ STOP_REQUESTED' = request_stop(STOP_REQUESTED)
    /\ UNCHANGED <<pc, platform, command_text, nlu_result, spoken, handler,
                   result, dispatched, turn, exit_reason, gui_calls, logged>>

\* a variant in which the GUI thread, closing the window, sends the
\* conversation thread back to the top of its loop
ScheduledDestroy_ending_loop ==
    /\ gui.pc = "mainloop"
    /\ gui.destroy_scheduled
    /\ gui' = [gui EXCEPT !.root = "destroyed", !.pc = "finally", !.destroy_scheduled = FALSE]
    /\ pc' = "LoopTop"
    /\ UNCHANGED <<STOP_REQUESTED, platform, command_text, nlu_result, spoken, handler,
                   result, dispatched, turn, exit_reason, gui_calls, logged>>

\* the root.destroy that stop() scheduled runs in mainloop, which returns
ScheduledDestroy ==
    /\ gui.pc = "mainloop"
    /\ gui.destroy_scheduled
    /\ gui' = [gui EXCEPT !.root = "destroyed", !.pc = "finally", !.destroy_scheduled = FALSE]
    /\ UNCHANGED <<pc, STOP_REQUESTED, platform, command_text, nlu_result, spoken, handler,
                   result, dispatched, turn, exit_reason, gui_calls, logged>>

\* a variant whose finally clause takes the stop request back
MainloopCleanup_clearing ==
    /\ gui.pc = "finally"
    /\ gui' = [gui EXCEPT !.pc = "ended"]
    /\ STOP_REQUESTED' = FALSE
    /\ UNCHANGED <<pc, platform, command_text, nlu_result, spoken, handler,
                   result, dispatched, turn, exit_reason, gui_calls, logged>>

\* _run, lines 112-118: the finally clause calls the quit callback, and the
\* GUI thread is over
MainloopCleanup ==
    /\ gui.pc = "finally"
    /\ gui' = [gui EXCEPT !.pc = "ended"]
    /\ STOP_REQUESTED' = request_stop(STOP_REQUESTED)
    /\ UNCHANGED <<pc, platform, command_text, nlu_result, spoken, handler,
                   result, dispatched, turn, exit_reason, gui_calls, logged>>

GuiThread == ProcessQueue \/ WindowClose \/ ScheduledDestroy \/ MainloopCleanup

GuiNext ==
    \/ CheckStop /\ Deliver
    \/ StartWakeWait /\ Deliver
    \/ \E heard \in WakeHeard : WakeWordReturn(heard) /\ Deliver
    \/ \E heard \in FairHeard : CommandCaptured(heard) /\ Deliver
    \/ \E upstream \in FairUpstreams : Classify(upstream) /\ Deliver
    \/ \E e \in EnvFor(PendingHandler) : Execute(e) /\ Deliver
    \/ \E heard \in FairHeard : FollowupCaptured(heard) /\ Deliver
    \/ KeyboardInterrupt /\ Deliver
    \/ ProcessQueue
    \/ WindowClose
    \/ ScheduledDestroy
    \/ MainloopCleanup

GuiSpec == Init /\ [][GuiNext]_vars

(***************************************************************************)
(* Properties of the two threads.                                          *)
(***************************************************************************)
CapturePcs == {"WakeWait", "CommandCapture", "FollowupCapture"}

\* C25: the GUI thread runs beside the conversation thread and takes no
\* part in its work: a step of the GUI thread starts or ends no capture,
\* no classification and no handler; a capture is started only by the step
\* that ended the thread's previous call, a handler runs only in the step
\* from line 100, one per step.
C25_OneCaptureOneHandler ==
    [][/\ GuiThread => UNCHANGED <<pc, spoken, handler, result, dispatched, turn>>
       /\ (pc' \in CapturePcs /\ pc' # pc)
             => \/ pc = "LoopTop" /\ pc' = "WakeWait"
                \/ pc = "WakeWait" /\ pc' = "CommandCapture"
                \/ pc = "Execute" /\ pc' = "FollowupCapture"
       /\ (handler' # handler /\ handler' # Null)
             => pc = "Execute" /\ pc' # "Execute"
       /\ (turn.handler_calls < MaxCount /\ turn'.handler_calls > turn.handler_calls)
             => pc = "Execute" /\ turn'.handler_calls = turn.handler_calls + 1
      ]_vars

\* the GUI thread has drained the queue while a handler is due
C25_GuiRunsDuringTurn ==
    /\ pc = "Execute"
    /\ gui.q = <<>>
    /\ gui.status_var = "Status: Wake word detected - Listening for command"

\* what the conversation loop reads
LoopState == <<pc, STOP_REQUESTED, platform, command_text, nlu_result>>

\* C26 as stated: no step of the GUI thread changes anything the
\* conversation loop reads.
C26_GuiLeavesLoopStateAlone ==
    [][GuiThread => UNCHANGED LoopState]_vars

\* C26 as the code has it: the only thing the loop reads that the GUI thread
\* changes is the stop flag, which it sets and never clears; the
\* conversation thread only appends to the queue, in the step that makes the
\* call, and reads nothing of gui; the GUI thread only takes from the front.
C26_QueueOneWayStopTheOtherWay ==
    [][/\ GuiThread => /\ UNCHANGED <<pc, platform, command_text, nlu_result>>
                       /\ STOP_REQUESTED => STOP_REQUESTED'
                       /\ gui'.q = gui.q \/ (gui.q # <<>> /\ gui'.q = Tail(gui.q))
       /\ ~GuiThread => /\ gui'.q = gui.q \o Puts(gui_calls')
                        /\ gui'.status_var = gui.status_var
                        /\ gui'.pc = gui.pc
                        /\ gui'.root = gui.root
      ]_vars

\* the GUI thread is over with messages left in the queue, and the
\* conversation thread has gone on to its end
C26_PutsWithNobodyReading ==
    /\ gui.pc = "ended"
    /\ Len(gui.q) = MaxQueue
    /\ pc = "ShutDown"
    /\ exit_reason = "stop"

\* C27: the loop ends on the stop flag seen at the top of the loop, on
\* Ctrl+C, or on an exception that reaches main; the exception path logs
\* the error and speaks the farewell; every path then writes the shut-down
\* line, puts the last line on the GUI and stops it.
C27_ExitPaths ==
    [][(pc' = "ShutDown" /\ pc # "ShutDown") =>
          /\ exit_reason' \in {"stop", "interrupt", "fatal"}
          /\ exit_reason' = "stop" => (pc = "LoopTop" /\ STOP_REQUESTED /\ spoken' = <<>>)
          /\ exit_reason' = "interrupt" => spoken' = <<Say(GOODBYE, <<>>)>>
          /\ exit_reason' = "fatal" =>
                /\ pc \in CapturePcs \/ (pc = "Execute" /\ result'.raised)
                /\ spoken' # <<>>
                /\ spoken'[Len(spoken')] = Say(CRITICAL_ERROR, <<>>)
                /\ logged'[1].level = "critical"
          /\ logged'[Len(logged')] = SHUT_DOWN_LINE
          /\ gui_calls' = ShutDownCalls
      ]_vars

C27_FatalExit ==
    /\ pc = "ShutDown"
    /\ exit_reason = "fatal"
    /\ result.raised
    /\ Len(spoken) = 1

\* the short listens of the dispatched handler
ListenCount ==
    Cardinality({ i \in DOMAIN result.effects :
                    result.effects[i].op = "listen_for_short_response" })

\* in the loop, every classification is of the capture just made, which
\* is not empty, every dispatch is of the classification just made, and
\* every follow-up capture was asked for by a handler
FreshInputs ==
    /\ pc \in {"Classify", "Execute"}
          => (Truthy(command_text) /\ command_text = turn.last_capture)
    /\ pc = "Execute" => (turn.upstream.kind # "none" /\ turn.classified = command_text)
    /\ pc # "Execute" => turn.upstream.kind = "none"
    /\ turn.classifications <= turn.captures
    /\ turn.handler_calls <= turn.classifications
    /\ turn.followups <= turn.handler_calls

\* C28 as stated: nothing is repeated by the program on its own, in the
\* loop or inside a handler: no handler listens a second time.
C28_NothingRepeated ==
    /\ FreshInputs
    /\ Dispatched => ListenCount <= 1

\* C28 as the code has it: the one thing repeated without a new request is
\* the confirmation listen of the knowledge-reply handler, once, when the
\* first listen heard nothing; no other handler listens, and in the loop
\* nothing is classified or dispatched twice.
C28_OnlyConfirmationRepeated ==
    /\ FreshInputs
    /\ Dispatched =>
          /\ ListenCount <= 2
          /\ ListenCount > 0 => handler = A_gemini_reply
          /\ ListenCount = 2 <=> (/\ handler = A_gemini_reply
                                  /\ IsDict(ParametersOf(dispatched.nlu_result))
                                  /\ Truthy(Get(ParametersOf(dispatched.nlu_result), "answer", Null))
                                  /\ ~Truthy(dispatched.env.reply1))

C28_ConfirmationHeardSecondTime ==
    /\ Dispatched
    /\ ListenCount = 2
    /\ Affirmative(dispatched.env.reply2)
    /\ pc = "LoopTop"

\* C29: a dispatch is of the intent just classified and runs exactly one
\* handler, the one registered for its kind (the unknown handler for any
\* other kind); line 100 is reached only from the classification of the
\* capture just made, and is left for the next capture, the top of the loop
\* or the end, never for the same intent again.
C29_OneHandlerPerDispatch ==
    [][/\ (pc = "Execute" /\ pc' # "Execute" /\ exit_reason' # "interrupt")
             => /\ handler' # Null
                /\ handler' = HandlerFor(ActionOf(nlu_result))
                /\ dispatched'.nlu_result = nlu_result
                /\ turn'.handler_calls = Count(turn.handler_calls)
                /\ pc' \in {"LoopTop", "FollowupCapture", "ShutDown"}
       /\ (pc' = "Execute" /\ pc # "Execute")
             => /\ pc = "Classify"
                /\ turn'.classifications = Count(turn.classifications)
                /\ turn'.classified = command_text
       /\ (pc' = "Classify" /\ pc # "Classify")
             => /\ pc \in {"CommandCapture", "FollowupCapture"}
                /\ command_text' = turn'.last_capture
      ]_vars

\* the speech has the wake word in it, in any case of letters
WakeWordIn(heard) ==
    heard.kind = "text" /\ Contains(Lower(heard.text), Lower(WAKE_WORD))

\* C30: while the thread waits for the wake word nothing of a turn exists;
\* a wait that returns without the wake word (silence, unclear speech, a
\* service error, other speech) takes the thread back to the top of the
\* loop with nothing spoken, nothing shown and no turn begun; the thread
\* goes on to the command capture, with the listening prompt, only from a
\* wait that heard the wake word.
C30_IdleUntilWakeWord ==
    [][/\ pc = "WakeWait"
             => (command_text = Null /\ turn = NewTurn /\ ~Dispatched /\ handler = Null)
       /\ \A heard \in WakeHeard :
             (WakeWordReturn(heard) /\ ~WakeWordIn(heard) /\ heard.kind # "error")
                => /\ pc' = "LoopTop"
                   /\ spoken' = <<>>
                   /\ gui_calls' = <<>>
                   /\ turn' = NewTurn
                   /\ command_text' = Null
                   /\ ~Dispatched'
       /\ (pc' = "CommandCapture" /\ pc # "CommandCapture")
             => /\ pc = "WakeWait"
                /\ \E heard \in WakeHeard : WakeWordIn(heard) /\ WakeWordReturn(heard)
                /\ spoken' = <<Say(LISTENING_PROMPT, <<>>)>>
       /\ (pc \in {"LoopTop", "WakeWait"} /\ pc' \notin {"LoopTop", "WakeWait", "ShutDown"})
             => pc' = "CommandCapture"
      ]_vars

C30_WokenByWakeWord ==
    /\ pc = "CommandCapture"
    /\ spoken = <<Say(LISTENING_PROMPT, <<>>)>>
    /\ turn.captures = 1
    /\ ~Dispatched

\* the app_name of a dispatched open_application intent
AppNameGiven == Get(ParametersOf(dispatched.nlu_result), "app_name", Null)

ApplicationDispatched ==
    /\ Dispatched
    /\ ActionOf(dispatched.nlu_result) = A_open_application
    /\ IsDict(ParametersOf(dispatched.nlu_result))
    /\ Truthy(AppNameGiven)

CouldNotFind ==
    \E i \in DOMAIN result.spoken :
        result.spoken[i].msg = "Sorry, I couldn't find the application: {app_name}."

\* C31: open_application with a non-empty app_name does not raise, asks the
\* platform exactly once to launch the alias of the lower-cased name without
\* its spaces (the name itself when it has no alias), speaks the failure
\* message exactly when the launch reports failure, and leaves the loop
\* idle.
C31_OpenApplicationLaunchesOnce ==
    ApplicationDispatched =>
        /\ ~result.raised
        /\ IsStr(AppNameGiven)
        /\ result.effects = <<Effect("Popen", AppAlias(RemoveSpaces(Lower(AppNameGiven)), platform))>>
        /\ CouldNotFind <=> dispatched.env.exec # "ok"
        /\ Idle

(***************************************************************************)
(* file_io create and read over files that are longer than what read       *)
(* speaks: the file system holds one file of up to MaxFileLen characters,   *)
(* and every call finds the files the call before it left.                 *)
(***************************************************************************)
MaxFileLen == 202

DIGITS == <<"0","1","2","3","4","5","6","7","8","9">>

\* a text of n characters, no two neighbours alike
Text(n) == [i \in 1..n |-> DIGITS[(i % 10) + 1]]

LongFileRequests ==
    { [action |-> A_file_io,
       parameters |-> Obj([operation |-> op, file_name |-> name, content |-> text])] :
      op \in {F_create, F_read},
      name \in {T_list, T_list \o DOT_TXT},
      text \in {Absent, Text(1), Text(SPOKEN_BUDGET), Text(MaxFileLen)} }

\* the lengths on both sides of what read speaks in full
LongLengths == {0, 1} \cup ((SPOKEN_BUDGET - 2)..MaxFileLen)

LongFsSnapshots ==
    {Fs0} \cup { Put(Fs0, T_list \o DOT_TXT, File(Text(n))) : n \in LongLengths }

LongFileInit ==
    /\ gui_calls = <<>>
    /\ logged = <<>>
    /\ gui = NewGui
    /\ pc = "Execute"
    /\ STOP_REQUESTED = FALSE
    /\ platform \in Platforms
    /\ command_text = W_queen
    /\ nlu_result = NoIntent
    /\ spoken = <<>>
    /\ handler = Null
    /\ result \in { WithFs(Return("None", <<>>, <<>>), fs) : fs \in LongFsSnapshots }
    /\ dispatched = NoDispatch
    /\ turn = [NewTurn EXCEPT !.first_command = command_text,
                              !.last_capture = command_text,
                              !.classified = command_text,
                              !.captures = 1,
                              !.classifications = 1]
    /\ exit_reason = "none"

\* lines 96-100: the classifier returns request, and execute_action runs
\* with the file system the last call left
LongFileDispatch(fault, request) ==
    LET e == [BaseEnv EXCEPT !.fs = result.fs, !.fault = fault]
        x == execute_action(request, command_text, platform, e)
    IN  /\ pc = "Execute"
        /\ \A p \in DOMAIN x.result.fs : Len(x.result.fs[p].content) <= MaxFileLen
        /\ nlu_result' = request
        /\ handler' = x.handler
        /\ result' = x.result
        /\ dispatched' = [nlu_result |-> request, original_command |-> command_text,
                          env |-> e]
        /\ spoken' = x.result.spoken
        /\ pc' = IF x.result.raised THEN "ShutDown" ELSE "Execute"
        /\ exit_reason' = IF x.result.raised THEN "fatal" ELSE "none"
        /\ UNCHANGED <<STOP_REQUESTED, platform, command_text, turn, gui_calls, logged, gui>>

LongFileNext ==
    \E fault \in BOOLEAN, request \in LongFileRequests : LongFileDispatch(fault, request)

LongFileSpec == LongFileInit /\ [][LongFileNext]_vars

\* a read that went to the file system
ReadDispatched ==
    /\ FileDispatched
    /\ FileRequest.operation = F_read
    /\ IsStr(FileRequest.file_name)
    /\ result.effects # <<>>

\* a read that got the content of its file
ContentRead ==
    /\ ReadDispatched
    /\ OpenError(dispatched.env.fs, PathUsed, "r") = ""
    /\ ~dispatched.env.fault

FileContent == Stat(dispatched.env.fs, PathUsed).content

ELLIPSIS == <<".", ".", ".">>

\* C32: a read that gets the content of its file speaks one message: that
\* the file is empty for an empty file, the whole content and no ellipsis
\* for a content of at most 200 characters, and the first 200 characters
\* followed by '...' for a longer one; no read changes the file system.
C32_ReadSpeaksWithinBudget ==
    /\ ReadDispatched => result.fs = dispatched.env.fs
    /\ ContentRead =>
        /\ ~result.raised
        /\ result.spoken =
             <<IF FileContent = <<>>
               THEN Say("File {file_path} is empty.", <<PathUsed>>)
               ELSE Say("The content of {file_path} is: {display_content}",
                        <<PathUsed,
                          IF Len(FileContent) <= 200
                          THEN FileContent
                          ELSE SubSeq(FileContent, 1, 200) \o ELLIPSIS>>)>>

C32_LongFileCutShort ==
    /\ ContentRead
    /\ Len(FileContent) = 201
    /\ Len(result.spoken[1].args[2]) = 203

\* a knowledge_reply dispatch with an answer to speak
KnowledgeDispatched ==
    /\ Dispatched
    /\ handler = A_gemini_reply
    /\ IsDict(ParametersOf(dispatched.nlu_result))
    /\ Truthy(Get(ParametersOf(dispatched.nlu_result), "answer", Null))

SAVE_QUESTION == "Would you like me to save this response for later? Please say yes or no."
SAVED_MESSAGE == "Saved the response to my memory."
SAVE_FAILED_MESSAGE == "Sorry, I couldn't save the response due to an error."

\* the positions of the message msg in what the handler spoke
SpokenAt(msg) == { i \in DOMAIN result.spoken : result.spoken[i].msg = msg }

\* the positions of the calls of op the handler made
DoneAt(op) == { i \in DOMAIN result.effects : result.effects[i].op = op }

LogBefore == Stat(dispatched.env.fs, RESPONSES_PATH).content
LogAfter == Stat(result.fs, RESPONSES_PATH).content

\* the response log has gained text at its end
LogWritten ==
    /\ Len(LogAfter) > Len(LogBefore)
    /\ SubSeq(LogAfter, 1, Len(LogBefore)) = LogBefore

\* C33: a knowledge_reply dispatch with an answer speaks the answer first
\* and the save question second; it opens the response log only after it
\* has listened and only when the reply heard is an affirmative one; it
\* says 'saved' last and only when the log has been written; when the
\* reply is affirmative and the write fails it says the error message
\* last instead; in every case it returns and asks for no follow-up.
C33_AnswerQuestionWriteSaved ==
    KnowledgeDispatched =>
        /\ ~result.raised
        /\ ~TruthyRet(result.ret)
        /\ Len(result.spoken) >= 3
        /\ result.spoken[1].msg = "{answer}"
        /\ SpokenAt(SAVE_QUESTION) = {2}
        /\ DoneAt("open:a") # {} =>
              /\ SaysYes(ConfirmationReply)
              /\ DoneAt("open:a") = {Len(result.effects)}
              /\ DoneAt("listen_for_short_response") # {}
        /\ result.fs # dispatched.env.fs => DoneAt("open:a") # {}
        /\ SpokenAt(SAVED_MESSAGE) # {} =>
              /\ SpokenAt(SAVED_MESSAGE) = {Len(result.spoken)}
              /\ LogWritten
        /\ (SaysYes(ConfirmationReply) /\ ~LogWritten) =>
              SpokenAt(SAVE_FAILED_MESSAGE) = {Len(result.spoken)}
        /\ SpokenAt(SAVE_FAILED_MESSAGE) # {} => ~LogWritten

(***************************************************************************)
(* Successive dispatches over one response log: knowledge replies that     *)
(* the user has saved or not, and file_io requests that name the log or    *)
(* another file.  Every call finds the files the call before it left;      *)
(* turn.handler_calls counts the calls, of which there are at most         *)
(* MaxDispatches.                                                          *)
(***************************************************************************)
MaxDispatches == 3

LogRequests ==
    IntentsOf(A_gemini_reply, "answer", {T_answer}, "question", {Absent})
    \cup { [action |-> A_file_io,
            parameters |-> Obj([operation |-> op, file_name |-> RESPONSES_PATH,
                                content |-> T_milk])] :
           op \in {F_create, F_append, F_read, F_delete} }
    \cup { [action |-> A_file_io,
            parameters |-> Obj([operation |-> F_create, file_name |-> T_list,
                                content |-> T_milk])] }

LogInit ==
    /\ gui_calls = <<>>
    /\ logged = <<>>
    /\ gui = NewGui
    /\ pc = "Execute"
    /\ STOP_REQUESTED = FALSE
    /\ platform \in Platforms
    /\ command_text = W_queen
    /\ nlu_result = NoIntent
    /\ spoken = <<>>
    /\ handler = Null
    /\ result = WithFs(Return("None", <<>>, <<>>), Fs0)
    /\ dispatched = NoDispatch
    /\ turn = [NewTurn EXCEPT !.first_command = command_text,
                              !.last_capture = command_text,
                              !.classified = command_text]
    /\ exit_reason = "none"

\* lines 96-100: the classifier returns request, and execute_action runs
\* with the file system the last call left; reply is what the user says
\* when asked whether to save
LogDispatch(reply, fault, request) ==
    LET e == [BaseEnv EXCEPT !.fs = result.fs, !.reply1 = reply, !.fault = fault]
        x == execute_action(request, command_text, platform, e)
    IN  /\ pc = "Execute"
        /\ turn.handler_calls < MaxDispatches
        /\ reply # Null => ActionOf(request) = A_gemini_reply
        /\ nlu_result' = request
        /\ handler' = x.handler
        /\ result' = x.result
        /\ dispatched' = [nlu_result |-> request, original_command |-> command_text,
                          env |-> e]
        /\ spoken' = x.result.spoken
        /\ pc' = IF x.result.raised THEN "ShutDown" ELSE "Execute"
        /\ exit_reason' = IF x.result.raised THEN "fatal" ELSE "none"
        /\ turn' = [turn EXCEPT !.handler_calls = @ + 1]
        /\ UNCHANGED <<STOP_REQUESTED, platform, command_text, gui_calls, logged, gui>>

LogNext ==
    \E reply \in {Null, <<"y","e","s">>}, fault \in BOOLEAN, request \in LogRequests :
        LogDispatch(reply, fault, request)

LogSpec == LogInit /\ [][LogNext]_vars

\* the records a save of the dispatched answer can add
SavedRecords ==
    { ResponseEntry(dispatched.env.now, q,
                    Get(ParametersOf(dispatched.nlu_result), "answer", Null)) :
      q \in { v \in { dispatched.original_command,
                      Get(ParametersOf(dispatched.nlu_result), "question", Null),
                      USER_QUERY } : Truthy(v) } }

\* C34: after every dispatch, a file_io operation with any file_name
\* included, the response log begins with what it held before the
\* dispatch, so that no record is changed or removed; a save adds exactly
\* one record at its end.
C34_LogOnlyGrows ==
    Dispatched =>
        /\ Len(LogAfter) >= Len(LogBefore)
        /\ SubSeq(LogAfter, 1, Len(LogBefore)) = LogBefore
        /\ ResponseSaved => \E record \in SavedRecords : LogAfter = LogBefore \o record

\* C35: the stop flag, once set, stays set; the quit callback applied to
\* its own result gives that result, and when the window has been closed
\* the second call of the callback, from the cleanup of the GUI thread,
\* changes nothing outside the GUI; once the loop has ended on the flag,
\* the conversation thread takes no further step: nothing is captured,
\* classified or dispatched.
C35_StopOnceAndForAll ==
    [][/\ STOP_REQUESTED => STOP_REQUESTED'
       /\ \A b \in BOOLEAN : request_stop(request_stop(b)) = request_stop(b)
       /\ (MainloopCleanup /\ STOP_REQUESTED) =>
              UNCHANGED <<pc, STOP_REQUESTED, platform, command_text, nlu_result, spoken,
                          handler, result, dispatched, turn, exit_reason, gui_calls, logged>>
       /\ exit_reason = "stop" =>
              /\ pc = "ShutDown"
              /\ UNCHANGED <<pc, command_text, nlu_result, spoken, handler, result,
                             dispatched, turn, exit_reason>>
      ]_vars

\* the window was closed during a turn, the loop has ended on the flag and
\* the cleanup of the GUI thread has called the quit callback once more
C35_QuitTwiceLoopEnded ==
    /\ exit_reason = "stop"
    /\ pc = "ShutDown"
    /\ gui.pc = "ended"
    /\ gui.root = "destroyed"
    /\ STOP_REQUESTED

\* the conversation thread is in a turn: past the wake word, not yet back
\* at the top of the loop
InTurn == pc \in {"CommandCapture", "Classify", "Execute", "FollowupCapture"}

\* C36: the conversation thread puts its messages at the end of the queue
\* and the GUI thread applies the one at the front and removes it, so that
\* messages are applied in the order they were put and none twice; the
\* GUI thread does not stop reading while a message is in the queue, so
\* that none is left unapplied; a turn that ends normally puts
\* listening=false and 'Status: Idle' last, and with the loop idle and the
\* queue empty the status shown is Idle (or, before the first wake word,
\* the initial one).
C36_FifoExactlyOnceThenIdle ==
    [][/\ GuiThread =>
              \/ gui'.q = gui.q /\ gui'.status_var = gui.status_var
              \/ /\ gui.q # <<>>
                 /\ gui'.q = Tail(gui.q)
                 /\ gui'.status_var = Applied(gui.status_var, Head(gui.q))
       /\ ~GuiThread => /\ gui'.q = gui.q \o Puts(gui_calls')
                        /\ gui'.status_var = gui.status_var
       /\ gui'.pc # "mainloop" => gui'.q = <<>>
       /\ (InTurn /\ pc' = "LoopTop") => gui_calls' = IdleCalls
       /\ (Idle' /\ gui'.q = <<>>) =>
              gui'.status_var \in {"Status: Initializing...", "Status: Idle"}
       /\ gui'.status_var = "Status: Initializing..." => gui.status_var = "Status: Initializing..."
      ]_vars

\* a create with a bare name that the file system lets through
CreateRequest ==
    /\ BareName
    /\ FileRequest.operation = F_create
    /\ ~dispatched.env.fault
    /\ result.effects # <<>>
    /\ OpenError(dispatched.env.fs, PathUsed, "w") = ""

\* what a read speaks of a file that holds content
ReadBack(file_path, content) ==
    IF content = <<>>
    THEN Say("File {file_path} is empty.", <<file_path>>)
    ELSE Say("The content of {file_path} is: {display_content}",
             <<file_path,
               IF Len(content) <= 200 THEN content ELSE SubSeq(content, 1, 200) \o ELLIPSIS>>)

\* C37: after a create with a bare name n and a content c the file at the
\* effective path holds exactly c, whatever it held before; a read with
\* the same name n that follows it opens the same path and speaks c, cut
\* to 200 characters and marked when it is longer, or says that the file
\* is empty when c is empty.
C37_CreateThenReadGivesContent ==
    [][/\ CreateRequest' =>
              /\ ~result'.raised
              /\ PathUsed' = FileRequest'.file_name \o DOT_TXT
              /\ ContentAfter' = GivenContent'
       /\ (CreateRequest /\ FileDispatched'
              /\ FileRequest'.operation = F_read
              /\ FileRequest'.file_name = FileRequest.file_name
              /\ ~dispatched'.env.fault)
            => /\ ~result'.raised
               /\ result'.effects # <<>>
               /\ PathUsed' = PathUsed
               /\ result'.spoken = <<ReadBack(PathUsed, GivenContent)>>
      ]_vars

=============================================================================
